---- MODULE Spec2Model ----
(***************************************************************************)
(* State-machine model of the transaction ledger of the multichain wallet: *)
(* the Circle webhook endpoint (updateTransactionStatus and                *)
(* updateAdminTransactionStatus), POST /api/transactions,                  *)
(* PATCH /api/transactions/[id] and the admin CCTP transfer action.        *)
(* Every await on the database or on the provider is one atomic step;      *)
(* request handlers interleave between their awaits.                       *)
(***************************************************************************)
EXTENDS Integers, Sequences, FiniteSets, TLC

\* ------------------------------------------------------------------ bounds
MaxDeliveries == 3      \* webhook deliveries accepted in one behaviour
MaxPatches == 1         \* PATCH requests in one behaviour
MaxPosts == 2           \* POST /api/transactions requests in one behaviour
MaxTransfers == 1       \* admin CCTP transfers started in one behaviour
MaxProviderTxs == 4     \* provider transactions created in one behaviour
MaxChainRequests == 3   \* transfers and deliveries together, in SpecChain
MaxGatewayRequests == 1 \* gateway transfer requests in one behaviour
MaxInitRuns == 3        \* runPlatformInitialization runs in one behaviour
MaxEoaRequests == 3     \* signer wallet requests and calls in one behaviour
MaxCustodialFlows == 2  \* custodial deposits and withdrawals in one behaviour
MaxAmount == 5          \* largest atomic amount of a burn call
MaxPolls == 2           \* incomplete answers to one attestation poll loop

\* ------------------------------------------------------- request handlers
Webhooks == {"w1", "w2"}        \* two concurrent webhook deliveries
Patchers == {"c1"}              \* client PATCH request
Posters == {"p1", "p2"}         \* two concurrent POST requests
Admins == {"a1"}                \* admin server action
Transferors == {"g1"}           \* client gateway transfer request
Servers == {"s1", "s2"}         \* server processes loading the module
EoaInits == {"e1"}              \* POST /api/gateway/init-eoa-wallets
EoaCallers == {"e2"}            \* a caller of getOrCreateGatewayEOAWallet
Custodians == {"d1", "d2"}      \* custodial deposit and withdrawal calls
Procs ==
    Webhooks \cup Patchers \cup Posters \cup Admins \cup Transferors \cup Servers
        \cup EoaInits \cup EoaCallers \cup Custodians

NULL == "null"

\* ------------------------------------------------------------ input sets
Users == {"u1"}
TxHashes == {"0xa"}
ChainIds == {"11155111"}          \* chainId of the payload, as String(chainId)
\* public.admin_wallets: id -> address, chain, circle_wallet_id
AdminWalletIds == {"aw1", "aw2"}
AdminWallets ==
    [w \in AdminWalletIds |->
        IF w = "aw1"
        THEN [address |-> "0xA1", chain |-> "ARC-TESTNET", circle_wallet_id |-> "cw1"]
        ELSE [address |-> "0xA2", chain |-> "ETH-SEPOLIA", circle_wallet_id |-> "cw2"]]
ExternalAddresses == {"0xE1"}
Destinations == {AdminWallets[w].address : w \in AdminWalletIds} \cup ExternalAddresses
CreditAmounts == {10}
\* lifecycle states the provider puts in notification.state
NotifStates == {"SENT", "CONFIRMED", "COMPLETE", "FAILED", "CANCELLED"}

\* enum transaction_status; a function-valued field is left out of the JSON
\* of an insert, so the column gets its default
TransactionStatus == {"pending", "confirmed", "complete", "failed"}

\* --------------------------------------------------------- pure functions
\* stateMap is an object literal: besides its six own keys a lookup finds the
\* members it inherits from Object.prototype, which are truthy
ObjectPrototypeKeys == {"constructor", "toString"}

stateMap(circleState) ==
    CASE circleState \in {"QUEUED", "SENT", "PENDING"} -> "pending"
      [] circleState = "CONFIRMED" -> "confirmed"
      [] circleState = "COMPLETE" -> "complete"
      [] circleState = "FAILED" -> "failed"
      [] circleState \in ObjectPrototypeKeys -> "Object.prototype." \o circleState
      [] OTHER -> NULL

\* undefined is NULL; !circleState also holds of the empty string
mapCircleStateToStatus(circleState) ==
    IF circleState = NULL \/ circleState = "" THEN NULL ELSE stateMap(circleState)

\* every state the provider documents, and what a notification may carry in
\* its place: nothing, the empty string, a word that is no state
CircleStates ==
    NotifStates \cup {"QUEUED", "PENDING", NULL, ""} \cup ObjectPrototypeKeys

statusPriority(s) ==
    CASE s = "pending" -> 1
      [] s = "confirmed" -> 2
      [] s = "complete" -> 3
      [] OTHER -> 0

\* SupportedChainId[chain.replace(/-/g, '_')], as the text the ledger stores
SupportedChainId(chain) ==
    CASE chain = "ETH-SEPOLIA" -> "11155111"
      [] chain = "AVAX-FUJI" -> "43113"
      [] chain = "BASE-SEPOLIA" -> "84532"
      [] chain = "ARC-TESTNET" -> "5042002"
      [] OTHER -> NULL

\* notification.state.toLowerCase() on the two states that reach it
toLowerCase(state) ==
    CASE state = "CONFIRMED" -> "confirmed"
      [] state = "COMPLETE" -> "complete"
      [] OTHER -> NULL

\* `${chainId}:${txHash}` and `admin:${id}`: injective in their arguments
userIdempotencyKey(chainId, txHash) == <<chainId, txHash>>
adminIdempotencyKey(ctid) == <<"admin", ToString(ctid)>>

VARIABLES
    transactions,                \* public.transactions, row id = index
    transaction_events,          \* public.transaction_events (trigger-written)
    transaction_webhook_events,  \* public.transaction_webhook_events
    credits,                     \* public.credits, per user
    creditCalls,                 \* increment_credits invocations per row id
    providerTxs,                 \* provider transactions, id = index
    pc,                          \* position of each request handler
    loc,                         \* locals of each request handler
    resp,                        \* the HTTP response sent last
    started,                     \* requests started, per kind
    transaction_history,         \* public.transaction_history
    burnIntents,                 \* burn intents signed and sent to the Gateway
    admin_wallets,               \* public.admin_wallets
    isInitialized,               \* the module-level flag of each server process
    public_wallets               \* public.wallets, the gateway_signer rows

vars == <<transactions, transaction_events, transaction_webhook_events,
          credits, creditCalls, providerTxs, pc, loc, resp, started,
          transaction_history, burnIntents, admin_wallets, isInitialized,
          public_wallets>>

platformVars == <<admin_wallets, isInitialized, public_wallets>>
gatewayVars == <<transaction_history, burnIntents>>
ledgerVars == <<transactions, transaction_events, transaction_webhook_events,
                credits, creditCalls>>

MaxRows == MaxPosts + 3 * MaxProviderTxs
RowIds == 1..MaxRows

NoBody == [notificationType |-> NULL, id |-> 0, state |-> NULL,
           txHash |-> NULL, blockchain |-> NULL]
NoLoc == [body |-> NoBody, replay |-> FALSE, todo |-> <<>>, txn |-> NULL,
          aux |-> 0, seen |-> FALSE]
\* a response without a JSON body the properties read
NoResponseBody == [error |-> NULL]

NoResp == [to |-> NULL, status |-> 0, id |-> 0, body |-> NoResponseBody]

\* ------------------------------------------------------- ledger store
\* A row of public.transactions.  Absent text columns hold NULL, absent
\* numeric columns and absent provider ids hold 0.
Row(type, status, user, direction, credit, chain, txHash, ctid, ikey, srcWallet, dest, burnId) ==
    [transaction_type |-> type, status |-> status, user_id |-> user,
     direction |-> direction, credit_amount |-> credit, chain |-> chain,
     tx_hash |-> txHash, circle_transaction_id |-> ctid,
     idempotency_key |-> ikey, source_wallet_id |-> srcWallet,
     destination_address |-> dest, cctp_burn_tx_id |-> burnId]

Ids == 1..Len(transactions)

\* what a select or an update ... returning hands to the handler
Snapshot(id) == [id |-> id, row |-> transactions[id]]

UniqueViolationNoKeys(row, self) ==
    \E i \in Ids \ {self} :
        /\ row.circle_transaction_id # 0
        /\ transactions[i].circle_transaction_id = row.circle_transaction_id

\* transactions_idempotency_key_key, transactions_chain_tx_hash_key and
\* transactions_circle_transaction_id_key (NULLs never collide)
UniqueViolation(row, self) ==
    \E i \in Ids \ {self} :
        \/ transactions[i].idempotency_key = row.idempotency_key
        \/ /\ row.tx_hash # NULL
           /\ transactions[i].chain = row.chain
           /\ transactions[i].tx_hash = row.tx_hash
        \/ /\ row.circle_transaction_id # 0
           /\ transactions[i].circle_transaction_id = row.circle_transaction_id

\* trigger on_transactions_status_change; via names the request that issued
\* the statement (audit annotation, not a column)
StatusEvent(id, old, new, via) ==
    [transaction_id |-> id, old_status |-> old, new_status |-> new, via |-> via]

\* the requests that write: a webhook delivery (with its body and whether
\* logWebhookEvent found the body already logged), a client request or an
\* admin action
ViaWebhook(body, replay) == [by |-> "webhook", body |-> body, replay |-> replay]
ViaRequest(p) == [by |-> p, body |-> NoBody, replay |-> FALSE]

\* the trigger function with its status test dropped
log_transaction_status_changeAlways(TG_OP, id, old, new, via) ==
    Append(transaction_events,
           StatusEvent(id, IF TG_OP = "INSERT" THEN NULL ELSE old, new, via))

\* the trigger function keeping one row per transaction
log_transaction_status_changeReplacing(TG_OP, id, old, new, via) ==
    LET Others(e) == e.transaction_id # id
    IN  Append(SelectSeq(transaction_events, Others),
               StatusEvent(id, IF TG_OP = "INSERT" THEN NULL ELSE old, new, via))

\* log_transaction_status_change, run after each inserted or updated row:
\* transaction_events after it
log_transaction_status_change(TG_OP, id, old, new, via) ==
    IF TG_OP = "UPDATE" /\ old # new
    THEN Append(transaction_events, StatusEvent(id, old, new, via))
    ELSE IF TG_OP = "INSERT"
    THEN Append(transaction_events, StatusEvent(id, NULL, new, via))
    ELSE transaction_events

\* INSERT INTO transactions: the row and the trigger's NULL -> status event
InsertRow(row, via) ==
    /\ transactions' = Append(transactions, row)
    /\ transaction_events' =
           log_transaction_status_change("INSERT", Len(transactions) + 1,
                                         NULL, row.status, via)

\* UPDATE transactions SET status = s WHERE id = id, with the trigger
UpdateStatus(id, s, via) ==
    /\ transactions' = [transactions EXCEPT ![id].status = s]
    /\ transaction_events' =
           log_transaction_status_change("UPDATE", id,
                                         transactions[id].status, s, via)

\* ----------------------------------------------------- handler plumbing
Respond(p, status, id) ==
    /\ pc' = [pc EXCEPT ![p] = "idle"]
    /\ loc' = [loc EXCEPT ![p] = NoLoc]
    /\ resp' = [to |-> p, status |-> status, id |-> id, body |-> NoResponseBody]
    /\ UNCHANGED platformVars

\* a request that gets past its checks counts against its bound
Count(kind) == started' = [started EXCEPT ![kind] = @ + 1]

Goto(p, label, newLoc) ==
    /\ pc' = [pc EXCEPT ![p] = label]
    /\ loc' = [loc EXCEPT ![p] = newLoc]
    /\ resp' = resp
    /\ UNCHANGED platformVars

Init ==
    /\ transactions = <<>>
    /\ transaction_events = <<>>
    /\ transaction_webhook_events = {}
    /\ credits = [u \in Users |-> 0]
    /\ creditCalls = [i \in RowIds |-> 0]
    /\ providerTxs = <<>>
    /\ pc = [p \in Procs |-> "idle"]
    /\ loc = [p \in Procs |-> NoLoc]
    /\ resp = NoResp
    /\ started = [hook |-> 0, patch |-> 0, post |-> 0, xfer |-> 0, gw |-> 0,
                  init |-> 0, eoa |-> 0, custody |-> 0]
    /\ transaction_history = <<>>
    /\ burnIntents = <<>>
    /\ admin_wallets = {}
    /\ isInitialized = [s \in Servers |-> FALSE]
    /\ public_wallets = {}

\* ------------------------------------------- POST /api/transactions
\* payload validation, authentication and the insert (one statement)
PostInsert(p, payloadOk, user, chainId, txHash) ==
    /\ pc[p] = "idle"
    /\ started.post < MaxPosts
    /\ \E credit \in CreditAmounts :
        LET row == Row("USER", "pending", user, "credit", credit, chainId,
                       txHash, 0, userIdempotencyKey(chainId, txHash),
                       NULL, NULL, 0)
        IN  IF ~payloadOk THEN
                /\ Respond(p, 400, 0)
                /\ UNCHANGED <<transactions, transaction_events, started>>
            ELSE IF user = NULL THEN
                /\ Respond(p, 401, 0)
                /\ UNCHANGED <<transactions, transaction_events, started>>
            ELSE IF UniqueViolation(row, 0) THEN
                /\ Goto(p, "post_lookup", [NoLoc EXCEPT !.txn = [id |-> 0, row |-> row]])
                /\ Count("post")
                /\ UNCHANGED <<transactions, transaction_events>>
            ELSE
                /\ InsertRow(row, ViaRequest(p))
                /\ Count("post")
                /\ Respond(p, 201, Len(transactions) + 1)
    /\ UNCHANGED <<transaction_webhook_events, credits, creditCalls, providerTxs>>
    /\ UNCHANGED gatewayVars

\* after a 23505: select the existing row by idempotency_key
PostLookup(p) ==
    /\ pc[p] = "post_lookup"
    /\ LET found == {i \in Ids : transactions[i].idempotency_key
                                    = loc[p].txn.row.idempotency_key}
       IN  IF Cardinality(found) = 1
           THEN Respond(p, 200, CHOOSE i \in found : TRUE)
           ELSE Respond(p, 500, 0)
    /\ UNCHANGED <<transactions, transaction_events, transaction_webhook_events,
                   credits, creditCalls, providerTxs, started>>
    /\ UNCHANGED gatewayVars

\* ------------------------------------------------- increment_credits RPC
\* INSERT ... ON CONFLICT (user_id) DO UPDATE SET credits = credits + amount;
\* ok = FALSE is the RPC returning an error, which both callers only log
IncrementCredits(rowId, user, amount, ok) ==
    /\ creditCalls' = [creditCalls EXCEPT ![rowId] = @ + 1]
    /\ credits' = IF ok THEN [credits EXCEPT ![user] = @ + amount] ELSE credits

\* ------------------------------------------- PATCH /api/transactions/[id]
\* validation, authentication and the fetch of the row
PatchFetch(p, id, status, txHash, user) ==
    /\ pc[p] = "idle"
    /\ started.patch < MaxPatches
    /\  LET Reject(code, rid) == Respond(p, code, rid) /\ UNCHANGED started IN
        IF status # "complete" THEN Reject(400, 0)
        ELSE IF txHash = "bad" THEN Reject(400, 0)
        ELSE IF user = NULL THEN Reject(401, 0)
        ELSE IF id \notin Ids THEN Reject(404, 0)
        ELSE LET transaction == transactions[id] IN
             IF transaction.user_id # user THEN Reject(403, 0)
             ELSE IF transaction.tx_hash # txHash THEN Reject(400, 0)
             ELSE IF transaction.status # "pending" THEN Reject(200, id)
             ELSE IF /\ transaction.direction = "credit"
                     /\ transaction.credit_amount # 0
                     /\ transaction.user_id # NULL
                  THEN /\ Goto(p, "patch_credit", [NoLoc EXCEPT !.txn = Snapshot(id)])
                       /\ Count("patch")
                  ELSE /\ Goto(p, "patch_update", [NoLoc EXCEPT !.txn = Snapshot(id)])
                       /\ Count("patch")
    /\ UNCHANGED <<transactions, transaction_events, transaction_webhook_events,
                   credits, creditCalls, providerTxs>>
    /\ UNCHANGED gatewayVars

PatchCredit(p, ok) ==
    /\ pc[p] = "patch_credit"
    /\  IncrementCredits(loc[p].txn.id, loc[p].txn.row.user_id,
                          loc[p].txn.row.credit_amount, ok)
    /\ Goto(p, "patch_update", loc[p])
    /\ UNCHANGED <<transactions, transaction_events, transaction_webhook_events,
                   providerTxs, started>>
    /\ UNCHANGED gatewayVars

\* update({status: "complete", metadata}).eq("id", id)
PatchUpdate(p) ==
    /\ pc[p] = "patch_update"
    /\ UpdateStatus(loc[p].txn.id, "complete", ViaRequest(p))
    /\ Respond(p, 200, loc[p].txn.id)
    /\ UNCHANGED <<transaction_webhook_events, credits, creditCalls,
                   providerTxs, started>>
    /\ UNCHANGED gatewayVars

\* --------------------------------------------- webhook: notifications
\* The provider signs what it sends: a notification about an inbound
\* transfer carries the on-chain hash of a user's top-up, a notification
\* about an outbound transaction carries the provider transaction id.  The
\* notificationId is unique per notification, so a body stands for itself.
InboundId(txHash) == IF txHash = "0xa" THEN 101 ELSE 102

InboundBody(txHash, state) ==
    [notificationType |-> "transactions.inbound", id |-> InboundId(txHash),
     state |-> state, txHash |-> txHash, blockchain |-> "ETH-SEPOLIA"]

TestBody ==
    [notificationType |-> "webhooks.test", id |-> 0, state |-> NULL,
     txHash |-> NULL, blockchain |-> NULL]

InboundBodies(states) == {InboundBody(h, s) : h \in TxHashes, s \in states}

generateDedupeHash(bodyString) == <<"sha256", bodyString>>

WebhookEvent(body) ==
    [circle_event_id |-> body, dedupe_hash |-> generateDedupeHash(body),
     mapped_status |-> IF mapCircleStateToStatus(body.state) \in TransactionStatus
                       THEN mapCircleStateToStatus(body.state)
                       ELSE NULL]

\* insert into transaction_webhook_events; a 23505 on UNIQUE (dedupe_hash) or
\* UNIQUE (circle_event_id) is logged and swallowed, and so is any other
\* error of the insert (ok = FALSE)
AlreadyLogged(body) ==
    \E e \in transaction_webhook_events :
        \/ e.dedupe_hash = generateDedupeHash(body)
        \/ e.circle_event_id = body

logWebhookEvent(body, ok) ==
    transaction_webhook_events' =
        IF AlreadyLogged(body) \/ ~ok
        THEN transaction_webhook_events
        ELSE transaction_webhook_events \cup {WebhookEvent(body)}

\* --------------------------------------- webhook: updateTransactionStatus
\* the rows of the select that the loop body does not skip
RECURSIVE DropSkipped(_, _)
DropSkipped(todo, mappedStatus) ==
    IF todo = <<>> THEN <<>>
    ELSE LET currentStatus == Head(todo).row.status IN
         IF \/ currentStatus = mappedStatus
            \/ /\ mappedStatus # "failed"
               /\ statusPriority(mappedStatus) <= statusPriority(currentStatus)
         THEN DropSkipped(Tail(todo), mappedStatus)
         ELSE todo

NeedsCredit(snapshot, mappedStatus) ==
    /\ mappedStatus \in {"confirmed", "complete"}
    /\ snapshot.row.status \notin {"confirmed", "complete"}

\* where the handler goes once updateTransactionStatus has returned:
\* updateAdminTransactionStatus returns at once unless CONFIRMED or COMPLETE
AfterLoop(p, start) ==
    IF start.body.state \in {"CONFIRMED", "COMPLETE"}
    THEN Goto(p, "uats_update", start)
    ELSE Respond(p, 200, 0)

ContinueLoop(p, start, todo) ==
    LET mappedStatus == mapCircleStateToStatus(start.body.state)
        rest == DropSkipped(todo, mappedStatus)
    IN  IF rest = <<>> THEN AfterLoop(p, start)
        ELSE IF NeedsCredit(Head(rest), mappedStatus)
             THEN Goto(p, "uts_credit", [start EXCEPT !.todo = rest])
             ELSE Goto(p, "uts_update", [start EXCEPT !.todo = rest])

\* POST of the webhook route up to and including logWebhookEvent
\* precheck: 400 (missing header, invalid JSON), 403 (signature), 422
\* (missing fields) or 200 (the delivery is accepted)
AcceptDelivery(p, body, ok) ==
    /\ logWebhookEvent(body, ok)
    /\ LET start == [NoLoc EXCEPT !.body = body,
                                   !.replay = AlreadyLogged(body)]
       IN  IF body.notificationType = "webhooks.test" \/ body.id = 0
           THEN Respond(p, 200, 0)
           ELSE IF mapCircleStateToStatus(body.state) = NULL
                THEN AfterLoop(p, start)
                ELSE Goto(p, "uts_select", start)

WebhookPOST(p, body, precheck) ==
    /\ pc[p] = "idle"
    /\ started.hook < MaxDeliveries
    /\  IF precheck # 200 THEN
            /\ Respond(p, precheck, 0)
            /\ UNCHANGED <<transaction_webhook_events, started>>
        ELSE
            /\ AcceptDelivery(p, body, TRUE)
            /\ Count("hook")
    /\ UNCHANGED <<transactions, transaction_events, credits, creditCalls,
                   providerTxs>>
    /\ UNCHANGED gatewayVars

\* The checks of POST one by one.  A delivery in flight carries the two
\* headers (NULL when absent), whether its text parses as JSON and whether the
\* parsed body has its required fields; signature names who signed the text.
Signatures == {NULL, "circle", "forged"}
KeyIds == {NULL, "k1"}
CirclePublicKey == "circle"

Delivery(signature, keyId, json, fields) ==
    [signature |-> signature, keyId |-> keyId, json |-> json,
     fields |-> fields, publicKey |-> NULL, fetched |-> NULL]

\* the provider posts a notification to the route
WebhookDeliver(p, body, signature, keyId, json, fields) ==
    /\ pc[p] = "idle"
    /\ started.hook < MaxDeliveries
    /\ Count("hook")
    /\ Goto(p, "wh_post", [NoLoc EXCEPT !.body = body,
                              !.txn = Delivery(signature, keyId, json, fields)])
    /\ UNCHANGED <<ledgerVars, providerTxs, gatewayVars>>

\* getCirclePublicKey: what fetching the key gives
KeyFetchAnswers == {"key", "transport error", "not ok", "invalid format"}

getCirclePublicKey(answer) ==
    IF answer = "key" THEN CirclePublicKey ELSE NULL

\* POST: the header check, JSON.parse, and the key fetch that
\* verifyCircleSignature starts with
WebhookCheck(p, answer) ==
    /\ pc[p] = "wh_post"
    /\ LET d == loc[p].txn IN
        IF d.signature = NULL \/ d.keyId = NULL
        THEN Respond(p, 400, 0)
        ELSE IF ~d.json
        THEN Respond(p, 400, 0)
        ELSE Goto(p, "wh_verify",
                  [loc[p] EXCEPT !.txn.publicKey = getCirclePublicKey(answer),
                                 !.txn.fetched = answer])
    /\ UNCHANGED <<ledgerVars, providerTxs, started, gatewayVars>>

verifyCircleSignatureAccepting(d) == TRUE

\* the catch of verifyCircleSignature turns a failed key fetch into false
verifyCircleSignature(d) ==
    IF d.fetched # "key" THEN FALSE
    ELSE d.publicKey = CirclePublicKey /\ d.signature = "circle"

\* POST from the end of verifyCircleSignature to logWebhookEvent
WebhookVerify(p, ok) ==
    /\ pc[p] = "wh_verify"
    /\ LET d == loc[p].txn
           isVerified == verifyCircleSignature(d)
       IN  IF ~isVerified
           THEN Respond(p, 403, 0) /\ UNCHANGED transaction_webhook_events
           ELSE IF ~d.fields
           THEN Respond(p, 422, 0) /\ UNCHANGED transaction_webhook_events
           ELSE AcceptDelivery(p, loc[p].body, ok)
    /\ UNCHANGED <<transactions, transaction_events, credits, creditCalls,
                   providerTxs, started, gatewayVars>>

RECURSIVE SnapshotsFrom(_, _)
SnapshotsFrom(i, txHash) ==
    IF i > Len(transactions) THEN <<>>
    ELSE IF /\ transactions[i].tx_hash = txHash
            /\ transactions[i].transaction_type = "USER"
            /\ transactions[i].direction = "credit"
         THEN <<Snapshot(i)>> \o SnapshotsFrom(i + 1, txHash)
         ELSE SnapshotsFrom(i + 1, txHash)

\* select id, status, user_id, credit_amount where tx_hash = notification.txHash
UtsSelect(p) ==
    /\ pc[p] = "uts_select"
    /\ ContinueLoop(p, [loc[p] EXCEPT !.todo = <<>>],
                    SnapshotsFrom(1, loc[p].body.txHash))
    /\ UNCHANGED <<transactions, transaction_events, transaction_webhook_events,
                   credits, creditCalls, providerTxs, started>>
    /\ UNCHANGED gatewayVars

UtsCredit(p, ok) ==
    /\ pc[p] = "uts_credit"
    /\ LET transaction == Head(loc[p].todo) IN
         IncrementCredits(transaction.id, transaction.row.user_id,
                          transaction.row.credit_amount, ok)
    /\ Goto(p, "uts_update", loc[p])
    /\ UNCHANGED <<transactions, transaction_events, transaction_webhook_events,
                   providerTxs, started>>
    /\ UNCHANGED gatewayVars

\* update({status: mappedStatus}).eq("id", transaction.id), then the rest of
\* the loop
UtsUpdate(p) ==
    /\ pc[p] = "uts_update"
    /\ UpdateStatus(Head(loc[p].todo).id,
                    mapCircleStateToStatus(loc[p].body.state),
                    ViaWebhook(loc[p].body, loc[p].replay))
    /\ ContinueLoop(p, [loc[p] EXCEPT !.todo = <<>>], Tail(loc[p].todo))
    /\ UNCHANGED <<transaction_webhook_events, credits, creditCalls,
                   providerTxs, started>>
    /\ UNCHANGED gatewayVars

\* ------------------------------------------------ provider (Circle SDK)
\* createContractExecutionTransaction: a new provider transaction; cause is
\* the ledger row whose handler issued the call (0 for an admin action)
\* a contract execution: cause is the row on whose behalf it was created and
\* abiParameters what it was given to relay (0 when the model does not follow it)
ProviderTxWith(fn, walletId, blockchain, cause, abiParameters) ==
    [fn |-> fn, walletId |-> walletId, blockchain |-> blockchain, cause |-> cause,
     abiParameters |-> abiParameters]

ProviderTx(fn, walletId, blockchain, cause) ==
    ProviderTxWith(fn, walletId, blockchain, cause, 0)

CreateContractExecution(tx) == providerTxs' = Append(providerTxs, tx)

ProviderHash(ctid) == "0xc" \o ToString(ctid)

OutboundBody(ctid, state) ==
    [notificationType |-> "transactions.outbound", id |-> ctid, state |-> state,
     txHash |-> ProviderHash(ctid), blockchain |-> providerTxs[ctid].blockchain]

OutboundBodies(states) ==
    {OutboundBody(k, s) : k \in 1..Len(providerTxs), s \in states}

\* ------------------------------------------- admin actions (server side)
AdminRow(type, ctid, chain, srcWallet, dest, burnId) ==
    Row(type, "pending", NULL, NULL, 0, chain, NULL, ctid,
        adminIdempotencyKey(ctid), srcWallet, dest, burnId)

\* transferFromAdminWalletCCTP: the approve call
CctpApprove(p) ==
    /\ pc[p] = "idle"
    /\ started.xfer < MaxTransfers
    /\ Len(providerTxs) < MaxProviderTxs
    /\ Count("xfer")
    /\ \E src \in AdminWalletIds, ok \in BOOLEAN :
       \E dest \in Destinations \ {AdminWallets[src].address} :
        IF ok THEN
            /\ CreateContractExecution(ProviderTx("approve",
                   AdminWallets[src].circle_wallet_id, AdminWallets[src].chain, 0))
            /\ Goto(p, "approval_insert",
                    [NoLoc EXCEPT !.aux = Len(providerTxs) + 1,
                                  !.txn = [src |-> src, dest |-> dest]])
        ELSE
            /\ Respond(p, 500, 0)
            /\ UNCHANGED providerTxs
    /\ UNCHANGED <<transactions, transaction_events, transaction_webhook_events,
                   credits, creditCalls>>
    /\ UNCHANGED gatewayVars

\* transferFromAdminWalletCCTP: the insert of the CCTP_APPROVAL row
ApprovalInsert(p) ==
    /\ pc[p] = "approval_insert"
    /\ LET src == loc[p].txn.src
           row == AdminRow("CCTP_APPROVAL", loc[p].aux,
                           SupportedChainId(AdminWallets[src].chain),
                           src, loc[p].txn.dest, 0)
       IN  IF UniqueViolation(row, 0)
           THEN UNCHANGED <<transactions, transaction_events>>
           ELSE InsertRow(row, ViaRequest(p))
    /\ Respond(p, 200, loc[p].aux)
    /\ UNCHANGED <<transaction_webhook_events, credits, creditCalls,
                   providerTxs, started>>
    /\ UNCHANGED gatewayVars

\* ---------------------------------- webhook: updateAdminTransactionStatus
IsInternal(address) == \E w \in AdminWalletIds : AdminWallets[w].address = address

WalletByAddress(address) ==
    CHOOSE w \in AdminWalletIds : AdminWallets[w].address = address

\* what follows the status update, by the row the update returned
AfterAdminUpdate(p, body, txn) ==
    IF body.state = "COMPLETE" /\ body.blockchain # "ARC-TESTNET"
    THEN Respond(p, 200, 0)
    ELSE IF ~IsInternal(txn.row.destination_address)
    THEN Respond(p, 200, 0)
    ELSE IF txn.row.transaction_type = "CCTP_APPROVAL"
    THEN Goto(p, "burn_call", [loc[p] EXCEPT !.txn = txn])
    ELSE IF txn.row.transaction_type = "CCTP_BURN"
    THEN Goto(p, "get_transaction", [loc[p] EXCEPT !.txn = txn])
    ELSE Respond(p, 200, 0)

\* updateData applied to the matched row: status, and tx_hash when present
AdminUpdateDataNoStatus(row, body) ==
    [row EXCEPT !.tx_hash = IF body.txHash # NULL THEN body.txHash ELSE @]

AdminUpdateData(row, body) ==
    [row EXCEPT !.status = toLowerCase(body.state),
                !.tx_hash = IF body.txHash # NULL THEN body.txHash ELSE @]

\* update(updateData).eq("circle_transaction_id", id)
\*   .neq("transaction_type", "USER").select().single()
UatsUpdate(p) ==
    /\ pc[p] = "uats_update"
    /\ LET body == loc[p].body
           match == {i \in Ids : /\ transactions[i].circle_transaction_id = body.id
                                 /\ transactions[i].transaction_type # "USER"}
       IN  IF Cardinality(match) # 1 THEN
               /\ Respond(p, 200, 0)
               /\ UNCHANGED <<transactions, transaction_events>>
           ELSE LET i == CHOOSE j \in match : TRUE
                    new == AdminUpdateData(transactions[i], body)
                IN  IF UniqueViolation(new, i) THEN
                        /\ Respond(p, 200, 0)
                        /\ UNCHANGED <<transactions, transaction_events>>
                    ELSE
                        /\ transactions' = [transactions EXCEPT ![i] = new]
                        /\ transaction_events' =
                               log_transaction_status_change("UPDATE", i,
                                   transactions[i].status, new.status,
                                   ViaWebhook(body, loc[p].replay))
                        /\ AfterAdminUpdate(p, body, [id |-> i, row |-> new])
    /\ UNCHANGED <<transaction_webhook_events, credits, creditCalls,
                   providerTxs, started>>
    /\ UNCHANGED gatewayVars

\* createContractExecutionTransaction(depositForBurn) on the source wallet
BurnCall(p) ==
    /\ pc[p] = "burn_call"
    /\ Len(providerTxs) < MaxProviderTxs
    /\ LET adminWallet == AdminWallets[loc[p].txn.row.source_wallet_id] IN
       \E ok \in BOOLEAN :
        IF ok THEN
            /\ CreateContractExecution(ProviderTx("depositForBurn",
                   adminWallet.circle_wallet_id, adminWallet.chain, loc[p].txn.id))
            /\ Goto(p, "burn_insert", [loc[p] EXCEPT !.aux = Len(providerTxs) + 1])
        ELSE
            /\ Respond(p, 500, 0)
            /\ UNCHANGED providerTxs
    /\ UNCHANGED <<transactions, transaction_events, transaction_webhook_events,
                   credits, creditCalls, started>>
    /\ UNCHANGED gatewayVars

\* insert of the CCTP_BURN row; the result of the insert is not inspected
BurnInsert(p) ==
    /\ pc[p] = "burn_insert"
    /\ LET transaction == loc[p].txn.row
           destinationWallet ==
               AdminWallets[WalletByAddress(transaction.destination_address)]
           row == AdminRow("CCTP_BURN", loc[p].aux, destinationWallet.chain,
                           transaction.source_wallet_id,
                           transaction.destination_address, 0)
       IN  IF UniqueViolation(row, 0)
           THEN UNCHANGED <<transactions, transaction_events>>
           ELSE InsertRow(row, ViaWebhook(loc[p].body, loc[p].replay))
    /\ Respond(p, 200, 0)
    /\ UNCHANGED <<transaction_webhook_events, credits, creditCalls,
                   providerTxs, started>>
    /\ UNCHANGED gatewayVars

\* circleDeveloperSdk.getTransaction: throws when the hash is missing
GetTransaction(p) ==
    /\ pc[p] = "get_transaction"
    /\ \E hasHash \in BOOLEAN :
        IF hasHash THEN Goto(p, "iris_poll", [loc[p] EXCEPT !.todo = <<>>, !.aux = 0])
        ELSE Respond(p, 500, 0)
    /\ UNCHANGED <<transactions, transaction_events, transaction_webhook_events,
                   credits, creditCalls, providerTxs, started>>
    /\ UNCHANGED gatewayVars

\* one round of the attestation loop: only a complete message leaves it;
\* "failed" is a message whose status reports a failure
IrisAnswers == {"404", "pending", "complete", "failed", "error"}

\* the k-th response of the loop: its outcome and, when it carries
\* messages, the content (message and attestation) of messages[0]
IrisResponse(answer, k) ==
    [status |-> answer,
     message |-> IF answer \in {"pending", "complete", "failed"} THEN k ELSE 0]

irisMessageObjectAnyStatus(response) == response.message

\* what the loop assigns to irisMessageObject: 0 stands for null
irisMessageObject(response) ==
    IF response.status = "complete" THEN response.message ELSE 0

\* loc[p].aux counts the responses received so far and loc[p].todo holds
\* the latest of them
IrisPoll(p) ==
    /\ pc[p] = "iris_poll"
    /\ \E answer \in IrisAnswers :
        LET response == IrisResponse(answer, loc[p].aux + 1)
            received == [loc[p] EXCEPT !.todo = <<response>>, !.aux = @ + 1]
        IN  IF irisMessageObject(response) # 0
            THEN Goto(p, "mint_call", received)
            ELSE /\ loc[p].aux < MaxPolls
                 /\ Goto(p, "iris_poll", received)
    /\ UNCHANGED <<transactions, transaction_events, transaction_webhook_events,
                   credits, creditCalls, providerTxs, started>>
    /\ UNCHANGED gatewayVars

\* createContractExecutionTransaction(receiveMessage) on the destination wallet
MintCall(p) ==
    /\ pc[p] = "mint_call"
    /\ Len(providerTxs) < MaxProviderTxs
    /\ LET destinationWallet ==
               AdminWallets[WalletByAddress(loc[p].txn.row.destination_address)] IN
       \E ok \in BOOLEAN :
        IF ok THEN
            /\ CreateContractExecution(ProviderTxWith("receiveMessage",
                   destinationWallet.circle_wallet_id, destinationWallet.chain,
                   loc[p].txn.id,
                   irisMessageObject(loc[p].todo[Len(loc[p].todo)])))
            /\ Goto(p, "mint_by_txid", [loc[p] EXCEPT !.aux = Len(providerTxs) + 1,
                                                      !.todo = <<>>])
        ELSE
            /\ Respond(p, 500, 0)
            /\ UNCHANGED providerTxs
    /\ UNCHANGED <<transactions, transaction_events, transaction_webhook_events,
                   credits, creditCalls, started>>
    /\ UNCHANGED gatewayVars

\* maybeSingle(): data only when exactly one row matches
MaybeSingle(matches) == Cardinality(matches) = 1

\* existingMintByTxId
MintSelectByTxId(p) ==
    /\ pc[p] = "mint_by_txid"
    /\ Goto(p, "mint_by_burn",
            [loc[p] EXCEPT !.seen = MaybeSingle(
                {i \in Ids : /\ transactions[i].transaction_type = "CCTP_MINT"
                             /\ transactions[i].circle_transaction_id = loc[p].aux})])
    /\ UNCHANGED <<transactions, transaction_events, transaction_webhook_events,
                   credits, creditCalls, providerTxs, started>>
    /\ UNCHANGED gatewayVars

\* existingMintByBurnMeta, then the decision to skip the insert
MintSelectByBurn(p) ==
    /\ pc[p] = "mint_by_burn"
    /\ LET existingMintByBurnMeta == MaybeSingle(
               {i \in Ids : /\ transactions[i].transaction_type = "CCTP_MINT"
                            /\ transactions[i].cctp_burn_tx_id = loc[p].txn.id})
       IN  IF loc[p].seen \/ existingMintByBurnMeta
           THEN Respond(p, 200, 0)
           ELSE Goto(p, "mint_insert", loc[p])
    /\ UNCHANGED <<transactions, transaction_events, transaction_webhook_events,
                   credits, creditCalls, providerTxs, started>>
    /\ UNCHANGED gatewayVars

\* insert of the CCTP_MINT row; a 23505 counts as success
MintInsert(p) ==
    /\ pc[p] = "mint_insert"
    /\ LET transaction == loc[p].txn.row
           destinationWallet ==
               AdminWallets[WalletByAddress(transaction.destination_address)]
           row == AdminRow("CCTP_MINT", loc[p].aux, destinationWallet.chain,
                           transaction.source_wallet_id,
                           transaction.destination_address, loc[p].txn.id)
       IN  IF UniqueViolation(row, 0)
           THEN UNCHANGED <<transactions, transaction_events>>
           ELSE InsertRow(row, ViaWebhook(loc[p].body, loc[p].replay))
    /\ Respond(p, 200, 0)
    /\ UNCHANGED <<transaction_webhook_events, credits, creditCalls,
                   providerTxs, started>>
    /\ UNCHANGED gatewayVars

\* ------------------------------------- POST /api/gateway/transfer
\* Two handlers serve the transfer request: one runs a gas pre-flight check
\* before the burn ("preflight"), the other goes straight to the burn
\* ("direct").
GatewayRoutes == {"preflight", "direct"}
GatewayChains == {"baseSepolia", "arcTestnet"}

CIRCLE_CHAIN_NAMES(chain) ==
    CASE chain = "avalancheFuji" -> "AVAX-FUJI"
      [] chain = "baseSepolia" -> "BASE-SEPOLIA"
      [] chain = "arcTestnet" -> "ARC-TESTNET"
      [] OTHER -> NULL

\* the user's rows of public.wallets: the SCA wallet and the gateway signer
ScaWallet == [circle_wallet_id |-> "sca1", address |-> "0xs1"]
EoaWallet == [circle_wallet_id |-> "eoa1", address |-> "0xg1"]
Recipients == {NULL, ScaWallet.address, "0xe1"}

WalletAddress(walletId) ==
    IF walletId = EoaWallet.circle_wallet_id THEN EoaWallet.address
    ELSE ScaWallet.address

NoError == [kind |-> NULL, walletId |-> NULL, blockchain |-> NULL]
GatewayError(kind) == [kind |-> kind, walletId |-> NULL, blockchain |-> NULL]

\* the locals of one transfer request; gas is the native balance, on the
\* destination chain, of the wallet that executes the mint, and mintAnswer is
\* what the provider answered to the gatewayMint call (NULL before the call)
TransferRequest(route, user, src, dst, recipientAddress, gas) ==
    LET isExternalRecipient ==
            recipientAddress # NULL /\ recipientAddress # ScaWallet.address
    IN  [route |-> route, user |-> user, sourceChain |-> src,
         destinationChain |-> dst,
         recipient |-> IF recipientAddress # NULL THEN recipientAddress
                       ELSE ScaWallet.address,
         isExternalRecipient |-> isExternalRecipient,
         minterWalletId |-> IF route = "direct" THEN ScaWallet.address
                            ELSE IF isExternalRecipient
                            THEN EoaWallet.circle_wallet_id
                            ELSE ScaWallet.circle_wallet_id,
         gas |-> gas, attempts |-> 0, attestation |-> 0, mintAnswer |-> NULL,
         txState |-> NULL,
         error |-> NoError]

ResponseBody(error, walletId, walletAddress, blockchain) ==
    [error |-> error, walletId |-> walletId, walletAddress |-> walletAddress,
     blockchain |-> blockchain]

RespondBody(p, status, body) ==
    /\ pc' = [pc EXCEPT ![p] = "idle"]
    /\ loc' = [loc EXCEPT ![p] = NoLoc]
    /\ resp' = [to |-> p, status |-> status, id |-> 0, body |-> body]
    /\ UNCHANGED platformVars

\* an error thrown inside the handler's try block lands in its catch block
ThrowFromNoGasBranch(p, locals, error) ==
    Goto(p, "gw_log", [locals EXCEPT !.txn.error = error])

ThrowFrom(p, locals, error) ==
    Goto(p, IF locals.txn.route = "preflight" /\ error.kind = "INSUFFICIENT_GAS"
            THEN "gw_wallet" ELSE "gw_log",
         [locals EXCEPT !.txn.error = error])

Throw(p, error) == ThrowFrom(p, loc[p], error)

\* authentication, validation and the lookup of the user's SCA wallet
GatewayPOST(p, route, user, fields, wallets, src, dst, recipientAddress, gas) ==
    /\ pc[p] = "idle"
    /\ started.gw < MaxGatewayRequests
    /\  IF user = NULL THEN
            /\ RespondBody(p, 401, ResponseBody("Unauthorized", NULL, NULL, NULL))
            /\ UNCHANGED started
        ELSE IF fields # "ok" THEN
            /\ RespondBody(p, 400, ResponseBody(fields, NULL, NULL, NULL))
            /\ UNCHANGED started
        ELSE IF wallets # "ok" THEN
            /\ RespondBody(p, IF wallets = "error" THEN 500 ELSE 404,
                           ResponseBody(wallets, NULL, NULL, NULL))
            /\ UNCHANGED started
        ELSE
            /\ Count("gw")
            /\ Goto(p, IF route = "preflight" THEN "gw_gas" ELSE "gw_sign",
                    [NoLoc EXCEPT !.txn = TransferRequest(route, user, src, dst,
                                                          recipientAddress, gas)])
    /\ UNCHANGED <<ledgerVars, providerTxs, gatewayVars>>

\* the pre-flight check: getGatewayEOAWalletId, checkWalletGasBalance
GatewayGasCheck(p, checked) ==
    /\ pc[p] = "gw_gas"
    /\ LET r == loc[p].txn
           hasGas == r.gas > 0
       IN  IF checked /\ ~hasGas
           THEN RespondBody(p, 400,
                    ResponseBody("INSUFFICIENT_GAS", r.minterWalletId,
                                 WalletAddress(r.minterWalletId),
                                 CIRCLE_CHAIN_NAMES(r.destinationChain)))
           ELSE Goto(p, "gw_sign", loc[p])
    /\ UNCHANGED <<ledgerVars, providerTxs, started, gatewayVars>>

\* transferGatewayBalanceWithEOA: signer lookup and signBurnIntentWithEOA
\* (minterGas and submitted annotate the intent, they are not part of it)
BurnIntent(r) ==
    [sourceDepositor |-> ScaWallet.address, sourceSigner |-> EoaWallet.address,
     destinationRecipient |-> r.recipient, sourceChain |-> r.sourceChain,
     destinationChain |-> r.destinationChain, minterGas |-> r.gas,
     submitted |-> FALSE]

GatewaySign(p, ok) ==
    /\ pc[p] = "gw_sign"
    /\  IF ok THEN
            /\ burnIntents' = Append(burnIntents, BurnIntent(loc[p].txn))
            /\ Goto(p, "gw_submit", [loc[p] EXCEPT !.aux = Len(burnIntents) + 1])
        ELSE
            /\ Throw(p, GatewayError("sign"))
            /\ UNCHANGED burnIntents
    /\ UNCHANGED <<ledgerVars, providerTxs, started, transaction_history>>

\* submitBurnIntent: the Gateway rejects the intent, or accepts it with or
\* without the attestation in the response
\* what the Gateway answers: "attested" carries an attestation and its
\* signature, "unsigned" an attestation without the signature
GatewaySubmitAnswers == {"rejected", "attested", "unsigned", "accepted"}

\* submitBurnIntent trusted as soon as the answer carries an attestation
GatewaySubmitAttestationOnly(p, answer) ==
    /\ pc[p] = "gw_submit"
    /\ burnIntents' = [burnIntents EXCEPT ![loc[p].aux].submitted = TRUE]
    /\  CASE answer = "rejected" -> Throw(p, GatewayError("Gateway API error"))
          [] answer = "attested" ->
                Goto(p, "gw_mint", [loc[p] EXCEPT !.txn.attestation = 1])
          [] answer = "unsigned" -> Goto(p, "gw_mint", loc[p])
          [] OTHER -> Goto(p, "gw_poll", loc[p])
    /\ UNCHANGED <<ledgerVars, providerTxs, started, transaction_history>>

GatewaySubmit(p, answer) ==
    /\ pc[p] = "gw_submit"
    /\ burnIntents' = [burnIntents EXCEPT ![loc[p].aux].submitted = TRUE]
    /\  CASE answer = "rejected" -> Throw(p, GatewayError("Gateway API error"))
          [] answer = "attested" ->
                Goto(p, "gw_mint", [loc[p] EXCEPT !.txn.attestation = 1])
          [] OTHER -> Goto(p, "gw_poll", loc[p])
    /\ UNCHANGED <<ledgerVars, providerTxs, started, transaction_history>>

\* one round of the attestation poll of transferGatewayBalanceWithEOA
maxAttempts == 60
GatewayPollAnswers == {"attested", "unsigned", "FAILED", "pending"}

GatewayPollOneMore(p, answer) ==
    /\ pc[p] = "gw_poll"
    /\ LET attempts == loc[p].txn.attempts IN
        CASE answer = "attested" ->
                Goto(p, "gw_mint", [loc[p] EXCEPT !.txn.attestation = attempts + 2])
          [] answer = "FAILED" -> Throw(p, GatewayError("Transfer failed"))
          [] OTHER ->
                IF attempts < maxAttempts
                THEN Goto(p, "gw_poll", [loc[p] EXCEPT !.txn.attempts = attempts + 1])
                ELSE Throw(p, GatewayError("Attestation not received"))
    /\ UNCHANGED <<ledgerVars, providerTxs, started, gatewayVars>>

GatewayPoll(p, answer) ==
    /\ pc[p] = "gw_poll"
    /\ LET attempts == loc[p].txn.attempts IN
        CASE answer = "attested" ->
                Goto(p, "gw_mint", [loc[p] EXCEPT !.txn.attestation = attempts + 2])
          [] answer = "FAILED" -> Throw(p, GatewayError("Transfer failed"))
          [] OTHER ->
                IF attempts + 1 < maxAttempts
                THEN Goto(p, "gw_poll", [loc[p] EXCEPT !.txn.attempts = attempts + 1])
                ELSE Throw(p, GatewayError("Attestation not received"))
    /\ UNCHANGED <<ledgerVars, providerTxs, started, gatewayVars>>

\* executeMintCircle: the gatewayMint call; a gas-shaped rejection is turned
\* into INSUFFICIENT_GAS:<walletId>:<blockchain> after a second signer lookup
\* when the mint runs on the user's EOA
GatewayMintAnswers == {"created", "gas", "rejected", "no_id"}

GatewayMint(p, answer, lookup) ==
    /\ pc[p] = "gw_mint"
    /\ Len(providerTxs) < MaxProviderTxs
    /\ LET r == loc[p].txn
           isUserId == r.route = "preflight" /\ r.isExternalRecipient
           blockchain == CIRCLE_CHAIN_NAMES(r.destinationChain)
           called == [loc[p] EXCEPT !.txn.mintAnswer =
                         IF isUserId /\ ~lookup /\ answer # "gas" THEN NULL ELSE answer]
       IN  CASE answer = "created" /\ (lookup \/ ~isUserId) ->
                    /\ CreateContractExecution(ProviderTx("gatewayMint",
                           r.minterWalletId, blockchain, 0))
                    /\ Goto(p, "gw_wait", [called EXCEPT !.aux = Len(providerTxs) + 1])
             [] answer = "gas" /\ (lookup \/ ~isUserId) ->
                    /\ ThrowFrom(p, called, [kind |-> "INSUFFICIENT_GAS",
                                             walletId |-> r.minterWalletId,
                                             blockchain |-> blockchain])
                    /\ UNCHANGED providerTxs
             [] answer = "gas" /\ ~lookup /\ isUserId ->
                    /\ ThrowFrom(p, called, GatewayError("Gateway EOA wallet not found"))
                    /\ UNCHANGED providerTxs
             [] OTHER ->
                    /\ ThrowFrom(p, called,
                                 GatewayError("Failed to execute mint transaction"))
                    /\ UNCHANGED providerTxs
    /\ UNCHANGED <<ledgerVars, started, gatewayVars>>

\* waitForTransactionConfirmation: one round of its while (true) loop
ProviderStates == {"QUEUED", "SENT", "CONFIRMED", "COMPLETE", "FAILED"}

GatewayWait(p, state, hasHash) ==
    /\ pc[p] = "gw_wait"
    /\  IF state \in {"CONFIRMED", "COMPLETE"} THEN
            IF hasHash THEN Goto(p, "gw_get", loc[p])
            ELSE Throw(p, GatewayError("txHash is missing"))
        ELSE IF state = "FAILED" THEN Throw(p, GatewayError("Transaction failed"))
        ELSE Goto(p, "gw_wait", [loc[p] EXCEPT !.txn.txState = state])
    /\ UNCHANGED <<ledgerVars, providerTxs, started, gatewayVars>>

\* executeMintCircle: the final getTransaction
GatewayGetTx(p, ok) ==
    /\ pc[p] = "gw_get"
    /\  IF ok THEN Goto(p, "gw_record", loc[p])
        ELSE Throw(p, GatewayError("Failed to fetch transaction"))
    /\ UNCHANGED <<ledgerVars, providerTxs, started, gatewayVars>>

HistoryRow(r, status, txHash, reason) ==
    [user_id |-> r.user, chain |-> r.sourceChain,
     destination_chain |-> r.destinationChain, status |-> status,
     tx_hash |-> txHash, reason |-> reason]

\* the success record and the success response
GatewayRecord(p) ==
    /\ pc[p] = "gw_record"
    /\ transaction_history' =
           Append(transaction_history,
                  HistoryRow(loc[p].txn, "success", ProviderHash(loc[p].aux), NULL))
    /\ RespondBody(p, 200, ResponseBody(NULL, NULL, NULL, NULL))
    /\ UNCHANGED <<ledgerVars, providerTxs, started, burnIntents>>

\* catch block, INSUFFICIENT_GAS: getWallet for the address to report
GatewayWallet(p, ok) ==
    /\ pc[p] = "gw_wallet"
    /\ LET e == loc[p].txn.error IN
        IF ok
        THEN RespondBody(p, 400,
                 ResponseBody("INSUFFICIENT_GAS", e.walletId,
                              WalletAddress(e.walletId), e.blockchain))
        ELSE Goto(p, "gw_log", loc[p])
    /\ UNCHANGED <<ledgerVars, providerTxs, started, gatewayVars>>

\* catch block: the failed record (when the user can be read) and the 500
GatewayLog(p, logged) ==
    /\ pc[p] = "gw_log"
    /\ transaction_history' =
           IF logged
           THEN Append(transaction_history,
                       HistoryRow(loc[p].txn, "failed", NULL, loc[p].txn.error.kind))
           ELSE transaction_history
    /\ RespondBody(p, 500, ResponseBody(loc[p].txn.error.kind, NULL, NULL, NULL))
    /\ UNCHANGED <<ledgerVars, providerTxs, started, burnIntents>>

\* ------------------------------------- runPlatformInitialization
\* The rows of admin_wallets labelled 'Primary wallet'
PrimaryWallets == {w \in admin_wallets : w.label = "Primary wallet"}

\* a step of a handler that sends no response
Move(p, label, newLoc) ==
    /\ pc' = [pc EXCEPT ![p] = label]
    /\ loc' = [loc EXCEPT ![p] = newLoc]

\* the run ends, by return or through the catch block, and the finally
\* block sets the flag; line is the console line the run ends with
InitializationEnds(s, line) ==
    /\ Move(s, "idle", NoLoc)
    /\ resp' = [to |-> s, status |-> 0, id |-> 0, body |-> [error |-> line]]
    /\ isInitialized' = [isInitialized EXCEPT ![s] = TRUE]

\* a server process is started again: its module scope is fresh
ServerRestart(s) ==
    /\ pc[s] = "idle"
    /\ isInitialized[s]
    /\ started.init < MaxInitRuns
    /\ isInitialized' = [isInitialized EXCEPT ![s] = FALSE]
    /\ UNCHANGED <<pc, loc, resp, started, admin_wallets, public_wallets,
                   ledgerVars, providerTxs, gatewayVars>>

\* the flag check and the environment check
InitializationStart(s, configured) ==
    /\ pc[s] = "idle"
    /\ ~isInitialized[s]
    /\ started.init < MaxInitRuns
    /\ Count("init")
    /\ IF configured
       THEN /\ Move(s, "init_select", [NoLoc EXCEPT !.aux = started.init + 1])
            /\ UNCHANGED <<resp, isInitialized>>
       ELSE InitializationEnds(s, "not configured")
    /\ UNCHANGED <<admin_wallets, public_wallets, ledgerVars, providerTxs,
                   gatewayVars>>

\* select circle_wallet_id where label = 'Primary wallet', maybeSingle
InitializationSelect(s, answer) ==
    /\ pc[s] = "init_select"
    /\ IF answer = "error" \/ Cardinality(PrimaryWallets) > 1
       THEN InitializationEnds(s, "failed")
       ELSE IF PrimaryWallets # {}
       THEN InitializationEnds(s, "already exists")
       ELSE /\ Move(s, "init_wallet_set", loc[s])
            /\ UNCHANGED <<resp, isInitialized>>
    /\ UNCHANGED <<started, admin_wallets, public_wallets, ledgerVars,
                   providerTxs, gatewayVars>>

\* POST /api/wallet-set, then POST /api/wallet
InitializationCreate(s, answer) ==
    /\ pc[s] \in {"init_wallet_set", "init_wallet"}
    /\ IF answer = "error"
       THEN InitializationEnds(s, "failed")
       ELSE /\ Move(s, IF pc[s] = "init_wallet_set" THEN "init_wallet"
                                                    ELSE "init_insert", loc[s])
            /\ UNCHANGED <<resp, isInitialized>>
    /\ UNCHANGED <<started, admin_wallets, public_wallets, ledgerVars,
                   providerTxs, gatewayVars>>

AdminWallet(walletId) ==
    [circle_wallet_id |-> walletId, label |-> "Primary wallet",
     chain |-> "ARC-TESTNET"]

\* insert into admin_wallets without idx_admin_wallets_label_unique
InitializationInsertNoIndex(s, answer) ==
    /\ pc[s] = "init_insert"
    /\ IF answer = "error"
       THEN /\ InitializationEnds(s, "failed")
            /\ UNCHANGED admin_wallets
       ELSE /\ admin_wallets' = admin_wallets \cup {AdminWallet(loc[s].aux)}
            /\ InitializationEnds(s, "created")
    /\ UNCHANGED <<started, public_wallets, ledgerVars, providerTxs, gatewayVars>>

\* insert into admin_wallets under the unique index on the label
InitializationInsert(s, answer) ==
    /\ pc[s] = "init_insert"
    /\ IF answer = "error"
       THEN /\ InitializationEnds(s, "failed")
            /\ UNCHANGED admin_wallets
       ELSE IF PrimaryWallets # {}
       THEN /\ InitializationEnds(s, "23505")
            /\ UNCHANGED admin_wallets
       ELSE /\ admin_wallets' = admin_wallets \cup {AdminWallet(loc[s].aux)}
            /\ InitializationEnds(s, "created")
    /\ UNCHANGED <<started, public_wallets, ledgerVars, providerTxs, gatewayVars>>

\* ------------------------------------- gateway signer (EOA) wallets
\* select ... from wallets where user_id = userId and type =
\* 'gateway_signer', single(): the row's wallet id, 0 for the thrown
\* "Gateway EOA wallet not found" (no row, or more than one)
getGatewayEOAWalletId(userId) ==
    LET rows == {w \in public_wallets : w.user_id = userId}
    IN  IF Cardinality(rows) = 1
        THEN (CHOOSE w \in rows : TRUE).circle_wallet_id
        ELSE 0

EoaResponds(p, status, error) ==
    /\ Move(p, "idle", NoLoc)
    /\ resp' = [to |-> p, status |-> status, id |-> 0, body |-> [error |-> error]]

\* the route's "already exists" check (limit 1), or the caller's first
\* getGatewayEOAWalletId
EoaStart(p, user) ==
    /\ pc[p] = "idle"
    /\ started.eoa < MaxEoaRequests
    /\ Count("eoa")
    /\ IF p \in EoaInits
       THEN IF \E w \in public_wallets : w.user_id = user
            THEN EoaResponds(p, 200, NULL)
            ELSE /\ Move(p, "eoa_sca", [NoLoc EXCEPT !.txn = user,
                                                    !.aux = started.eoa + 1])
                 /\ resp' = resp
       ELSE IF getGatewayEOAWalletId(user) # 0
            THEN EoaResponds(p, 200, NULL)
            ELSE /\ Move(p, "eoa_sca", [NoLoc EXCEPT !.txn = user,
                                                    !.aux = started.eoa + 1])
                 /\ resp' = resp
    /\ UNCHANGED <<admin_wallets, isInitialized, public_wallets, ledgerVars,
                   providerTxs, gatewayVars>>

\* the select of the SCA wallet's wallet_set_id, then createWallets
EoaCreate(p, answer) ==
    /\ pc[p] \in {"eoa_sca", "eoa_create"}
    /\ IF answer = "error"
       THEN EoaResponds(p, IF p \in EoaInits /\ pc[p] = "eoa_sca" THEN 404 ELSE 500,
                        "failed")
       ELSE /\ Move(p, IF pc[p] = "eoa_sca" THEN "eoa_create" ELSE "eoa_insert",
                    loc[p])
            /\ resp' = resp
    /\ UNCHANGED <<started, admin_wallets, isInitialized, public_wallets,
                   ledgerVars, providerTxs, gatewayVars>>

\* storeGatewayEOAWalletForUser: insert into wallets
EoaInsert(p, answer) ==
    /\ pc[p] = "eoa_insert"
    /\ IF answer = "error"
       THEN /\ EoaResponds(p, 500, "failed")
            /\ UNCHANGED public_wallets
       ELSE /\ public_wallets' = public_wallets \cup
                    {[user_id |-> loc[p].txn, circle_wallet_id |-> loc[p].aux]}
            /\ IF p \in EoaInits
               THEN EoaResponds(p, 200, NULL)
               ELSE /\ Move(p, "eoa_get", loc[p])
                    /\ resp' = resp
    /\ UNCHANGED <<started, admin_wallets, isInitialized, ledgerVars,
                   providerTxs, gatewayVars>>

\* getOrCreateGatewayEOAWallet: "Now get the newly created wallet"
EoaGet(p) ==
    /\ pc[p] = "eoa_get"
    /\ IF getGatewayEOAWalletId(loc[p].txn) # 0
       THEN EoaResponds(p, 200, NULL)
       ELSE EoaResponds(p, 500, "Gateway EOA wallet not found")
    /\ UNCHANGED <<started, admin_wallets, isInitialized, public_wallets,
                   ledgerVars, providerTxs, gatewayVars>>

\* ------------------------- custodial deposit and withdrawal (Gateway)
\* The contract calls of initiateDepositFromCustodialWallet and of
\* withdrawFromCustodialWallet, in the order of the code
CustodialCalls(flow, delegate, amount) ==
    IF flow = "withdraw"
    THEN <<"initiateWithdrawal", "withdraw">>
    ELSE (IF delegate THEN <<"addDelegate">> ELSE <<>>)
            \o (IF amount > 0 THEN <<"approve", "deposit">> ELSE <<>>)

CustodialStart(p, flow, delegate, amount) ==
    /\ pc[p] = "idle"
    /\ started.custody < MaxCustodialFlows
    /\ Count("custody")
    /\ LET calls == CustodialCalls(flow, delegate, amount) IN
        IF calls = <<>>
        THEN RespondBody(p, 500, [error |-> "No deposit amount and no delegate provided"])
        ELSE Goto(p, "cw_call",
                  [NoLoc EXCEPT !.todo = calls,
                                !.txn = [flow |-> flow, delegate |-> delegate,
                                         last |-> NULL, state |-> NULL]])
    /\ UNCHANGED <<ledgerVars, providerTxs, gatewayVars>>

\* initiateContractInteraction for the next call of the flow
CustodialCall(p, answer) ==
    /\ pc[p] = "cw_call"
    /\ Len(providerTxs) < MaxProviderTxs
    /\ IF answer = "created"
       THEN /\ CreateContractExecution(ProviderTx(Head(loc[p].todo),
                    ScaWallet.circle_wallet_id, "ARC-TESTNET", 0))
            /\ Goto(p, "cw_wait", [loc[p] EXCEPT !.aux = Len(providerTxs) + 1])
       ELSE /\ RespondBody(p, 500, [error |-> "Circle API did not return a Challenge ID."])
            /\ UNCHANGED providerTxs
    /\ UNCHANGED <<ledgerVars, started, gatewayVars>>

\* the wait loop leaving on FAILED as it does on CONFIRMED
CustodialWaitIgnoringFailed(p, state, hasHash) ==
    /\ pc[p] = "cw_wait"
    /\ IF state \in {"CONFIRMED", "COMPLETE", "FAILED"} THEN
            IF ~hasHash
            THEN RespondBody(p, 500, [error |-> "txHash is missing"])
            ELSE IF Len(loc[p].todo) = 1
            THEN RespondBody(p, 200, NoResponseBody)
            ELSE Goto(p, "cw_call",
                      [loc[p] EXCEPT !.todo = Tail(@), !.txn.state = state,
                                     !.txn.last = Head(loc[p].todo)])
       ELSE Goto(p, "cw_wait", loc[p])
    /\ UNCHANGED <<ledgerVars, providerTxs, started, gatewayVars>>

\* waitForTransactionConfirmation: one round of its loop, and what the flow
\* does when it returns; txn.state is the state it returned on
CustodialWait(p, state, hasHash) ==
    /\ pc[p] = "cw_wait"
    /\ IF state \in {"CONFIRMED", "COMPLETE"} THEN
            IF ~hasHash
            THEN RespondBody(p, 500, [error |-> "txHash is missing"])
            ELSE IF Len(loc[p].todo) = 1
            THEN RespondBody(p, 200, NoResponseBody)
            ELSE Goto(p, "cw_call",
                      [loc[p] EXCEPT !.todo = Tail(@), !.txn.state = state,
                                     !.txn.last = Head(loc[p].todo)])
       ELSE IF state = "FAILED"
       THEN RespondBody(p, 500, [error |-> "Transaction failed"])
       ELSE Goto(p, "cw_wait", loc[p])
    /\ UNCHANGED <<ledgerVars, providerTxs, started, gatewayVars>>

\* ----------------------------------------- depositForBurn parameters
\* const maxFee = amount > 1n ? amount - 1n : 0n, on BigInt
maxFeeUnguarded(amount) == amount - 1

maxFee(amount) == IF amount > 1 THEN amount - 1 ELSE 0

\* the burn call's abiParameters for an atomic amount: amount and maxFee
BurnParameters(amount) ==
    /\ Len(providerTxs) < MaxProviderTxs
    /\ CreateContractExecution(ProviderTxWith("depositForBurn", "aw1", "ARC-TESTNET",
                                              0, <<amount, maxFee(amount)>>))
    /\ UNCHANGED <<ledgerVars, pc, loc, resp, started, gatewayVars, platformVars>>

\* ------------------------------------------------------- specifications
\* The credit ledger: top-ups recorded by POST, advanced by inbound-transfer
\* webhooks (two deliveries may be in flight) and by the client's PATCH.
CreditStates == {"SENT", "CONFIRMED", "COMPLETE", "FAILED"}

Next ==
    \/ \E p \in {"p1"}, user \in Users, chainId \in ChainIds, txHash \in TxHashes :
            PostInsert(p, TRUE, user, chainId, txHash)
    \/ \E p \in {"p1"} : PostLookup(p)
    \/ \E p \in Patchers, id \in Ids, txHash \in TxHashes, user \in Users :
            PatchFetch(p, id, "complete", txHash, user)
    \/ \E p \in Patchers : PatchCredit(p, TRUE)
    \/ \E p \in Patchers : PatchUpdate(p)
    \/ \E p \in Webhooks : \E b \in InboundBodies(CreditStates) :
            WebhookPOST(p, b, 200)
    \/ \E p \in Webhooks : UtsSelect(p)
    \/ \E p \in Webhooks : UtsCredit(p, TRUE)
    \/ \E p \in Webhooks : UtsUpdate(p)
    \/ \E p \in Webhooks : UatsUpdate(p)

Spec == Init /\ [][Next]_vars

\* The same ledger with webhook deliveries handled one after another.
NextSeq ==
    \/ \E user \in Users, chainId \in ChainIds, txHash \in TxHashes :
            PostInsert("p1", TRUE, user, chainId, txHash)
    \/ PostLookup("p1")
    \/ \E b \in InboundBodies(CircleStates) : WebhookPOST("w1", b, 200)
    \/ UtsSelect("w1")
    \/ \E ok \in BOOLEAN : UtsCredit("w1", ok)
    \/ UtsUpdate("w1")
    \/ UatsUpdate("w1")

SpecSeq == Init /\ [][NextSeq]_vars

\* POST /api/transactions alone, two requests in flight.
PostChainIds == {"11155111", "84532"}
PostTxHashes == {"0xa", "0xb"}

NextPost ==
    \/ \E p \in Posters, payloadOk \in BOOLEAN, user \in Users \cup {NULL},
          chainId \in PostChainIds, txHash \in PostTxHashes :
            PostInsert(p, payloadOk, user, chainId, txHash)
    \/ \E p \in Posters : PostLookup(p)

SpecPost == Init /\ [][NextPost]_vars

\* The CCTP chain: an admin transfer and the webhooks about its provider
\* transactions.
CctpStates == {"CONFIRMED", "COMPLETE"}

NextCctp ==
    \/ \E p \in Admins : CctpApprove(p)
    \/ \E p \in Admins : ApprovalInsert(p)
    \/ \E p \in Webhooks : \E b \in OutboundBodies(CctpStates) :
            WebhookPOST(p, b, 200)
    \/ \E p \in Webhooks : UtsSelect(p)
    \/ \E p \in Webhooks : UatsUpdate(p)
    \/ \E p \in Webhooks : BurnCall(p)
    \/ \E p \in Webhooks : BurnInsert(p)
    \/ \E p \in Webhooks : GetTransaction(p)
    \/ \E p \in Webhooks : IrisPoll(p)
    \/ \E p \in Webhooks : MintCall(p)
    \/ \E p \in Webhooks : MintSelectByTxId(p)
    \/ \E p \in Webhooks : MintSelectByBurn(p)
    \/ \E p \in Webhooks : MintInsert(p)

SpecCctp == Init /\ [][NextCctp]_vars

\* One transfer chain followed from the approve call to the mint row: the
\* same steps, with the requests of one behaviour counted together.
ChainBudget == started.xfer + started.hook < MaxChainRequests

NextChain ==
    \/ \E p \in Admins : ChainBudget /\ CctpApprove(p)
    \/ \E p \in Admins : ApprovalInsert(p)
    \/ \E p \in Webhooks : \E b \in OutboundBodies(CctpStates) :
            ChainBudget /\ WebhookPOST(p, b, 200)
    \/ \E p \in Webhooks : UtsSelect(p)
    \/ \E p \in Webhooks : UatsUpdate(p)
    \/ \E p \in Webhooks : BurnCall(p)
    \/ \E p \in Webhooks : BurnInsert(p)
    \/ \E p \in Webhooks : GetTransaction(p)
    \/ \E p \in Webhooks : IrisPoll(p)
    \/ \E p \in Webhooks : MintCall(p)
    \/ \E p \in Webhooks : MintSelectByTxId(p)
    \/ \E p \in Webhooks : MintSelectByBurn(p)
    \/ \E p \in Webhooks : MintInsert(p)

SpecChain == Init /\ [][NextChain]_vars

\* the steps of updateAdminTransactionStatus and of the admin action that
\* follow the first one
ChainSteps ==
    \/ \E p \in Admins : ApprovalInsert(p)
    \/ \E p \in Webhooks : UtsSelect(p)
    \/ \E p \in Webhooks : UatsUpdate(p)
    \/ \E p \in Webhooks : BurnCall(p)
    \/ \E p \in Webhooks : BurnInsert(p)
    \/ \E p \in Webhooks : GetTransaction(p)
    \/ \E p \in Webhooks : IrisPoll(p)
    \/ \E p \in Webhooks : MintCall(p)
    \/ \E p \in Webhooks : MintSelectByTxId(p)
    \/ \E p \in Webhooks : MintSelectByBurn(p)
    \/ \E p \in Webhooks : MintInsert(p)

\* The transfer chain with every state the provider reports about its
\* transactions, FAILED and CANCELLED included.
NextNotify ==
    \/ \E p \in Admins : ChainBudget /\ CctpApprove(p)
    \/ \E p \in Webhooks : \E b \in OutboundBodies(NotifStates) :
            ChainBudget /\ WebhookPOST(p, b, 200)
    \/ ChainSteps

SpecNotify == Init /\ [][NextNotify]_vars

\* Deliveries handled one after another, in a run that is either an admin
\* transfer with the provider's notifications about it, or a client's deposit
\* with its PATCH and the notifications about it.
NextSerial ==
    \/ \E p \in Admins :
            ChainBudget /\ started.post = 0 /\ started.hook = 0 /\ CctpApprove(p)
    \/ \E b \in OutboundBodies(CctpStates) \cup InboundBodies({"CONFIRMED"}) :
            ChainBudget /\ WebhookPOST("w1", b, 200)
    \/ \E user \in Users, chainId \in ChainIds, txHash \in TxHashes :
            started.post + started.xfer = 0
                /\ PostInsert("p1", TRUE, user, chainId, txHash)
    \/ \E id \in Ids, txHash \in TxHashes, user \in Users :
            started.xfer = 0 /\ PatchFetch("c1", id, "complete", txHash, user)
    \/ \E ok \in BOOLEAN : PatchCredit("c1", ok)
    \/ PatchUpdate("c1")
    \/ \E ok \in BOOLEAN : UtsCredit("w1", ok)
    \/ UtsUpdate("w1")
    \/ ChainSteps

SpecSerial == Init /\ [][NextSerial]_vars

\* One admin transfer followed to its CCTP_MINT record and the notifications
\* about it, one delivery at a time, beside a client that posts a deposit
\* whose hash is that of a provider transaction.
RecordBudget == started.xfer + started.hook < MaxChainRequests + 1

NextRecord ==
    \/ \E p \in Admins : RecordBudget /\ CctpApprove(p)
    \/ \E b \in OutboundBodies(CctpStates) :
            RecordBudget /\ WebhookPOST("w1", b, 200)
    \/ \E user \in Users, chainId \in PostChainIds, k \in 1..Len(providerTxs) :
            started.post = 0 /\ PostInsert("p1", TRUE, user, chainId, ProviderHash(k))
    \/ \E ok \in BOOLEAN : UtsCredit("w1", ok)
    \/ UtsUpdate("w1")
    \/ ChainSteps

SpecRecord == Init /\ [][NextRecord]_vars

\* The credit ledger with the webhook route's checks spelled out: deliveries
\* with and without headers, parsable or not, signed by the provider or not,
\* handled one after another; the requests of one behaviour are counted
\* together.
VerifyBudget == started.post + started.hook < MaxChainRequests

NextVerify ==
    \/ \E user \in Users, chainId \in ChainIds, txHash \in TxHashes :
            VerifyBudget /\ PostInsert("p1", TRUE, user, chainId, txHash)
    \/ PostLookup("p1")
    \/ \E b \in InboundBodies(CreditStates) \cup {TestBody},
          signature \in Signatures, keyId \in KeyIds, json \in BOOLEAN,
          fields \in BOOLEAN :
            VerifyBudget /\ WebhookDeliver("w1", b, signature, keyId, json, fields)
    \/ \E answer \in KeyFetchAnswers : WebhookCheck("w1", answer)
    \/ \E ok \in BOOLEAN : WebhookVerify("w1", ok)
    \/ UtsSelect("w1")
    \/ UtsCredit("w1", TRUE)
    \/ UtsUpdate("w1")
    \/ UatsUpdate("w1")

SpecVerify == Init /\ [][NextVerify]_vars

\* The client's gateway transfer request, on either route.
NextGateway ==
    \/ \E p \in Transferors, route \in GatewayRoutes, user \in Users \cup {NULL},
          fields \in {"ok", "Missing required fields", "Invalid chain"},
          wallets \in {"ok", "error", "No Circle wallet found"},
          src \in GatewayChains, dst \in GatewayChains,
          recipientAddress \in Recipients, gas \in {0, 1} :
            GatewayPOST(p, route, user, fields, wallets, src, dst,
                        recipientAddress, gas)
    \/ \E p \in Transferors, checked \in BOOLEAN : GatewayGasCheck(p, checked)
    \/ \E p \in Transferors, ok \in BOOLEAN : GatewaySign(p, ok)
    \/ \E p \in Transferors, answer \in GatewaySubmitAnswers : GatewaySubmit(p, answer)
    \/ \E p \in Transferors, answer \in GatewayPollAnswers : GatewayPoll(p, answer)
    \/ \E p \in Transferors, answer \in GatewayMintAnswers, lookup \in BOOLEAN :
            GatewayMint(p, answer, lookup)
    \/ \E p \in Transferors, state \in ProviderStates, hasHash \in BOOLEAN :
            GatewayWait(p, state, hasHash)
    \/ \E p \in Transferors, ok \in BOOLEAN : GatewayGetTx(p, ok)
    \/ \E p \in Transferors : GatewayRecord(p)
    \/ \E p \in Transferors, ok \in BOOLEAN : GatewayWallet(p, ok)
    \/ \E p \in Transferors, logged \in BOOLEAN : GatewayLog(p, logged)

SpecGateway == Init /\ [][NextGateway]_vars

\* The handler with the pre-flight check alone, for an authenticated user with
\* valid fields, where the Gateway answers the submitted burn intent at once
\* (with the attestation, or with a rejection).
NextMint ==
    \/ \E p \in Transferors, user \in Users, src \in GatewayChains,
          dst \in GatewayChains, recipientAddress \in Recipients, gas \in {0, 1} :
            GatewayPOST(p, "preflight", user, "ok", "ok", src, dst,
                        recipientAddress, gas)
    \/ \E p \in Transferors, checked \in BOOLEAN : GatewayGasCheck(p, checked)
    \/ \E p \in Transferors, ok \in BOOLEAN : GatewaySign(p, ok)
    \/ \E p \in Transferors, answer \in {"rejected", "attested"} :
            GatewaySubmit(p, answer)
    \/ \E p \in Transferors, answer \in GatewayMintAnswers, lookup \in BOOLEAN :
            GatewayMint(p, answer, lookup)
    \/ \E p \in Transferors, state \in ProviderStates, hasHash \in BOOLEAN :
            GatewayWait(p, state, hasHash)
    \/ \E p \in Transferors, ok \in BOOLEAN : GatewayGetTx(p, ok)
    \/ \E p \in Transferors : GatewayRecord(p)
    \/ \E p \in Transferors, ok \in BOOLEAN : GatewayWallet(p, ok)
    \/ \E p \in Transferors, logged \in BOOLEAN : GatewayLog(p, logged)

SpecMint == Init /\ [][NextMint]_vars

\* One kind of request on the handler without the pre-flight check, followed
\* through the attestation poll.
NextPoll ==
    \/ \E p \in Transferors, user \in Users, gas \in {0, 1} :
            GatewayPOST(p, "direct", user, "ok", "ok", "baseSepolia",
                        "arcTestnet", NULL, gas)
    \/ \E p \in Transferors, ok \in BOOLEAN : GatewaySign(p, ok)
    \/ \E p \in Transferors, answer \in GatewaySubmitAnswers : GatewaySubmit(p, answer)
    \/ \E p \in Transferors, answer \in GatewayPollAnswers : GatewayPoll(p, answer)
    \/ \E p \in Transferors, answer \in GatewayMintAnswers :
            GatewayMint(p, answer, TRUE)
    \/ \E p \in Transferors, state \in ProviderStates, hasHash \in BOOLEAN :
            GatewayWait(p, state, hasHash)
    \/ \E p \in Transferors, ok \in BOOLEAN : GatewayGetTx(p, ok)
    \/ \E p \in Transferors : GatewayRecord(p)
    \/ \E p \in Transferors, logged \in BOOLEAN : GatewayLog(p, logged)

SpecPoll == Init /\ [][NextPoll]_vars

\* the direct route against a provider that never reports a terminal state of
\* the mint transaction; the runtime always runs a request's next step
NonTerminalStates == ProviderStates \ {"CONFIRMED", "COMPLETE", "FAILED"}

NextNeverTerminal ==
    \/ \E p \in Transferors, user \in Users, gas \in {0, 1} :
            GatewayPOST(p, "direct", user, "ok", "ok", "baseSepolia",
                        "arcTestnet", NULL, gas)
    \/ \E p \in Transferors, ok \in BOOLEAN : GatewaySign(p, ok)
    \/ \E p \in Transferors, answer \in GatewaySubmitAnswers : GatewaySubmit(p, answer)
    \/ \E p \in Transferors, answer \in GatewayPollAnswers : GatewayPoll(p, answer)
    \/ \E p \in Transferors, answer \in GatewayMintAnswers :
            GatewayMint(p, answer, TRUE)
    \/ \E p \in Transferors, state \in NonTerminalStates :
            GatewayWait(p, state, FALSE)
    \/ \E p \in Transferors, logged \in BOOLEAN : GatewayLog(p, logged)

SpecNeverTerminal ==
    Init /\ [][NextNeverTerminal]_vars /\ WF_vars(NextNeverTerminal)

\* Server processes starting together, and starting again
NextInit ==
    \/ \E s \in Servers, configured \in BOOLEAN :
            InitializationStart(s, configured)
    \/ \E s \in Servers, answer \in {"ok", "error"} :
            \/ InitializationSelect(s, answer)
            \/ InitializationCreate(s, answer)
            \/ InitializationInsert(s, answer)
    \/ \E s \in Servers : ServerRestart(s)

SpecInit == Init /\ [][NextInit]_vars

\* Concurrent init-eoa-wallets requests and getOrCreateGatewayEOAWallet calls
NextEoa ==
    \/ \E p \in EoaInits \cup EoaCallers, user \in Users : EoaStart(p, user)
    \/ \E p \in EoaInits \cup EoaCallers, answer \in {"ok", "error"} :
            \/ EoaCreate(p, answer)
            \/ EoaInsert(p, answer)
    \/ \E p \in EoaCallers : EoaGet(p)

SpecEoa == Init /\ [][NextEoa]_vars

\* Custodial deposits and withdrawals running side by side
NextCustody ==
    \/ \E p \in Custodians, flow \in {"deposit", "withdraw"}, delegate \in BOOLEAN,
          amount \in {0, 1} : CustodialStart(p, flow, delegate, amount)
    \/ \E p \in Custodians, answer \in {"created", "no_id"} : CustodialCall(p, answer)
    \/ \E p \in Custodians, state \in ProviderStates, hasHash \in BOOLEAN :
            CustodialWait(p, state, hasHash)

SpecCustody == Init /\ [][NextCustody]_vars

\* Burn calls for every atomic amount up to MaxAmount
NextFee == \E amount \in 0..MaxAmount : BurnParameters(amount)

SpecFee == Init /\ [][NextFee]_vars

\* ------------------------------------------------------------ properties
Success == {"confirmed", "complete"}

IsUserCredit(i) ==
    /\ transactions[i].transaction_type = "USER"
    /\ transactions[i].direction = "credit"

\* every delivery accepted so far carried a state that maps to success
OnlySuccessDelivered ==
    \A e \in transaction_webhook_events : e.mapped_status \in Success

HandlersIdle == \A p \in Procs : pc[p] = "idle"

EventsOf(i) ==
    {k \in DOMAIN transaction_events : transaction_events[k].transaction_id = i}

EventsVia(body) ==
    {k \in DOMAIN transaction_events :
        /\ transaction_events[k].via.by = "webhook"
        /\ transaction_events[k].via.body = body}

\* C1: two success webhooks for one pending USER credit row, handled
\* concurrently, call increment_credits exactly once for that row.
C1_OneCreditForTwoConcurrentWebhooks ==
    \A i \in Ids :
        (/\ IsUserCredit(i)
         /\ started.hook = 2
         /\ started.patch = 0
         /\ OnlySuccessDelivered)
        => /\ creditCalls[i] <= 1
           /\ (HandlersIdle /\ transactions[i].status \in Success)
                  => creditCalls[i] = 1

\* C2: over webhooks handled one after another, increment_credits is called
\* at most once per USER credit row, and exactly when the row has moved from
\* a non-success status to confirmed or complete.
C2_OneCreditOverSequentialWebhooks ==
    \A i \in Ids :
        IsUserCredit(i)
        => /\ creditCalls[i] <= 1
           /\ HandlersIdle
                  => creditCalls[i] =
                        IF \E k \in EventsOf(i) :
                               transaction_events[k].new_status \in Success
                        THEN 1 ELSE 0

\* C3: a PATCH (status complete) and a success webhook for one pending USER
\* credit row, handled concurrently, call increment_credits exactly once.
C3_OneCreditForPatchAndWebhook ==
    \A i \in Ids :
        (/\ IsUserCredit(i)
         /\ started.hook = 1
         /\ started.patch = 1
         /\ OnlySuccessDelivered)
        => /\ creditCalls[i] <= 1
           /\ (HandlersIdle /\ transactions[i].status \in Success)
                  => creditCalls[i] = 1

MintsOf(burn) ==
    {m \in Ids : /\ transactions[m].transaction_type = "CCTP_MINT"
                 /\ transactions[m].cctp_burn_tx_id = burn}

\* C4: at most one CCTP_MINT row references a given CCTP_BURN row, also when
\* two burn confirmations are handled concurrently.
C4_OneMintPerBurn ==
    \A b \in Ids :
        transactions[b].transaction_type = "CCTP_BURN"
        => Cardinality(MintsOf(b)) <= 1

\* C5: every recorded status change keeps or raises the priority
\* (pending < confirmed < complete), unless it is a change to failed.
C5_MonotonicStatus ==
    \A k \in DOMAIN transaction_events :
        LET e == transaction_events[k] IN
        \/ e.old_status = NULL
        \/ e.new_status = "failed"
        \/ statusPriority(e.new_status) >= statusPriority(e.old_status)

\* C6: a row whose status is failed keeps that status.
C6_FailedIsAbsorbing ==
    [][\A i \in Ids : transactions[i].status = "failed"
                      => transactions'[i].status = "failed"]_vars

\* C7: a webhook body delivered again leaves one transaction_webhook_events
\* row for it and adds no transaction_events row beyond the one its first
\* delivery may have caused.  (A first delivery that touches two records is
\* not held against the claim: only a replay that writes is.)
C7_ReplayIsIdempotent ==
    \A e \in transaction_webhook_events :
        LET body == e.circle_event_id IN
        /\ Cardinality({f \in transaction_webhook_events :
                          f.dedupe_hash = generateDedupeHash(body)}) = 1
        /\ (\E k \in EventsVia(body) : transaction_events[k].via.replay)
               => Cardinality(EventsVia(body)) <= 1

NoDuplicateIdempotencyKey ==
    \A i, j \in Ids :
        i # j => transactions[i].idempotency_key # transactions[j].idempotency_key

\* a POST whose key exists inserts nothing and touches neither credits nor
\* the provider; its answer is 200 with the id of the row holding the key
PostDedupStep ==
    \A p \in Posters :
        /\ (pc[p] = "idle" /\ pc'[p] = "post_lookup")
           => /\ \E i \in Ids : transactions[i].idempotency_key
                                   = loc'[p].txn.row.idempotency_key
              /\ UNCHANGED <<transactions, creditCalls, credits, providerTxs>>
        /\ (pc[p] = "post_lookup" /\ pc'[p] = "idle")
           => /\ resp'.to = p
              /\ resp'.status = 200
              /\ resp'.id \in Ids
              /\ transactions[resp'.id].idempotency_key
                    = loc[p].txn.row.idempotency_key
              /\ UNCHANGED <<transactions, creditCalls, credits, providerTxs>>

\* C8: POST /api/transactions for an idempotency key already stored inserts
\* no second row, answers success with the existing row's id, and causes no
\* credit and no provider call, also with two requests in flight.
C8_PostIsIdempotent ==
    /\ []NoDuplicateIdempotencyKey
    /\ [][PostDedupStep]_vars

\* a duplicate POST has been answered with the stored row
C8_Witness ==
    /\ resp.to \in Posters
    /\ resp.status = 200
    /\ resp.id \in Ids
    /\ started.post = 2

\* C9: confirmations of one CCTP_APPROVAL (CONFIRMED, COMPLETE, replays)
\* issue one burn call and leave one CCTP_BURN row for it.
BurnCallsFor(approval) ==
    {k \in DOMAIN providerTxs : /\ providerTxs[k].fn = "depositForBurn"
                                /\ providerTxs[k].cause = approval}

BurnRowsFor(approval) ==
    {r \in Ids : /\ transactions[r].transaction_type = "CCTP_BURN"
                 /\ transactions[r].circle_transaction_id \in BurnCallsFor(approval)}

C9_OneBurnPerApproval ==
    \A a \in Ids :
        transactions[a].transaction_type = "CCTP_APPROVAL"
        => /\ Cardinality(BurnCallsFor(a)) <= 1
           /\ Cardinality(BurnRowsFor(a)) <= 1

\* the previous step of every next-step row has been observed confirmed
StepOrder ==
    \A r \in Ids :
        /\ transactions[r].transaction_type = "CCTP_BURN"
           => LET a == providerTxs[transactions[r].circle_transaction_id].cause IN
              /\ a \in Ids
              /\ transactions[a].transaction_type = "CCTP_APPROVAL"
              /\ transactions[a].status \in Success
        /\ transactions[r].transaction_type = "CCTP_MINT"
           => LET b == transactions[r].cctp_burn_tx_id IN
              /\ b \in Ids
              /\ transactions[b].transaction_type = "CCTP_BURN"
              /\ transactions[b].status \in Success

\* a CCTP_BURN or CCTP_MINT row is inserted by the webhook handler of a
\* CONFIRMED or COMPLETE notification about the previous step's transaction
InsertedOnConfirmation ==
    Len(transactions') > Len(transactions)
    => LET new == transactions'[Len(transactions')] IN
       new.transaction_type \in {"CCTP_BURN", "CCTP_MINT"}
       => \E p \in Webhooks :
            /\ pc[p] \in {"burn_insert", "mint_insert"}
            /\ pc'[p] = "idle"
            /\ loc[p].body.state \in {"CONFIRMED", "COMPLETE"}
            /\ loc[p].body.id = loc[p].txn.row.circle_transaction_id
            /\ loc[p].txn.row.transaction_type =
                  IF new.transaction_type = "CCTP_BURN"
                  THEN "CCTP_APPROVAL" ELSE "CCTP_BURN"

\* C10: a CCTP_BURN row exists only if its CCTP_APPROVAL is confirmed or
\* complete, a CCTP_MINT row only if the CCTP_BURN it references is, and
\* next-step rows are inserted only while a confirmation of the previous step
\* is being handled.
C10_NextStepOnlyAfterConfirmation ==
    /\ []StepOrder
    /\ [][InsertedOnConfirmation]_vars

\* the whole chain has been created: approval, burn and mint rows exist
C10_Witness ==
    \E m \in Ids :
        /\ transactions[m].transaction_type = "CCTP_MINT"
        /\ transactions[m].cctp_burn_tx_id \in Ids

FailedLogged(ctid) ==
    \E e \in transaction_webhook_events :
        /\ e.circle_event_id.state = "FAILED"
        /\ e.circle_event_id.id = ctid

\* the handler of a FAILED notification leaves the step's row failed
FailedIsRecorded ==
    \A p \in Webhooks :
        (pc[p] # "idle" /\ pc'[p] = "idle" /\ loc[p].body.state = "FAILED")
        => \A i \in Ids :
              (/\ transactions[i].transaction_type # "USER"
               /\ transactions[i].circle_transaction_id = loc[p].body.id)
              => transactions'[i].status = "failed"

\* no provider call is issued for a step whose transaction was reported FAILED
NoStepAfterFailed ==
    Len(providerTxs') > Len(providerTxs)
    => LET cause == providerTxs'[Len(providerTxs')].cause IN
       cause \in Ids => ~FailedLogged(transactions[cause].circle_transaction_id)

\* C11: a FAILED notification for the provider transaction of an ADMIN or
\* CCTP_* row sets that row to failed, and no further step of the transfer is
\* started for it afterwards.
C11_FailedStopsChain == [][FailedIsRecorded /\ NoStepAfterFailed]_vars

\* C12: a gateway transfer request whose minting wallet has zero native
\* balance on the destination chain signs and submits no burn intent: it is
\* answered INSUFFICIENT_GAS before transferGatewayBalanceWithEOA is reached.
C12_NoBurnWithoutGas ==
    \A k \in DOMAIN burnIntents : burnIntents[k].minterGas > 0

\* the provider rejected the request's gatewayMint call with a gas-shaped error
\* and the request is in the handler's catch block
GasRejected(p) ==
    /\ pc[p] \in {"gw_wallet", "gw_log"}
    /\ loc[p].txn.mintAnswer = "gas"

InsufficientGasBody(r) ==
    ResponseBody("INSUFFICIENT_GAS", r.minterWalletId,
                 WalletAddress(r.minterWalletId),
                 CIRCLE_CHAIN_NAMES(r.destinationChain))

GasErrorRaised ==
    \A p \in Transferors :
        /\ GasRejected(p) =>
              LET r == loc[p].txn IN
              \/ r.error = [kind |-> "INSUFFICIENT_GAS",
                            walletId |-> r.minterWalletId,
                            blockchain |-> CIRCLE_CHAIN_NAMES(r.destinationChain)]
              \/ /\ r.isExternalRecipient
                 /\ r.error = GatewayError("Gateway EOA wallet not found")
        /\ pc[p] = "gw_wallet" => loc[p].txn.error.kind = "INSUFFICIENT_GAS"

\* the answer: 400 with the signer's address and chain from the catch block's
\* INSUFFICIENT_GAS branch, 500 after the branch was left or not entered
GasErrorAnswered ==
    \A p \in Transferors :
        GasRejected(p) /\ pc'[p] = "idle" =>
            IF pc[p] = "gw_wallet"
            THEN /\ resp'.status = 400
                 /\ resp'.body = InsufficientGasBody(loc[p].txn)
            ELSE /\ resp'.status = 500
                 /\ resp'.body.error = loc[p].txn.error.kind

\* the 500 is given only after the INSUFFICIENT_GAS branch's wallet lookup
GasBranchTried ==
    \A p \in Transferors :
        /\ pc[p] # "gw_log"
        /\ pc'[p] = "gw_log"
        /\ loc'[p].txn.error.kind = "INSUFFICIENT_GAS"
        => pc[p] = "gw_wallet"

\* after the rejection: no provider transaction, no success record, no retry
NoMintAfterGasRejection ==
    \A p \in Transferors :
        GasRejected(p) =>
            /\ providerTxs' = providerTxs
            /\ burnIntents' = burnIntents
            /\ pc'[p] \in {pc[p], "gw_log", "idle"}
            /\ \/ transaction_history' = transaction_history
               \/ /\ Len(transaction_history') = Len(transaction_history) + 1
                  /\ transaction_history'[Len(transaction_history')].status = "failed"
                  /\ SubSeq(transaction_history', 1, Len(transaction_history))
                        = transaction_history

C14_KeyFetchFailureIs5xx ==
    [][\A p \in Webhooks :
          /\ pc[p] = "wh_verify"
          /\ loc[p].txn.fetched # "key"
          /\ pc'[p] = "idle"
          => /\ resp'.status >= 500
             /\ UNCHANGED <<ledgerVars, providerTxs>>]_vars

\* a step of p's handler out of the given position
Leaves(p, label) == pc[p] = label /\ pc'[p] # label

NoEffect == UNCHANGED <<ledgerVars, providerTxs>>

MissingHeaderIs400 ==
    \A p \in Webhooks :
        /\ Leaves(p, "wh_post")
        /\ loc[p].txn.signature = NULL \/ loc[p].txn.keyId = NULL
        => pc'[p] = "idle" /\ resp' = [NoResp EXCEPT !.to = p, !.status = 400]
             /\ NoEffect

InvalidJsonIs400 ==
    \A p \in Webhooks :
        /\ Leaves(p, "wh_post")
        /\ ~loc[p].txn.json
        => pc'[p] = "idle" /\ resp' = [NoResp EXCEPT !.to = p, !.status = 400]
             /\ NoEffect

UnverifiedIs403 ==
    \A p \in Webhooks :
        /\ Leaves(p, "wh_verify")
        /\ loc[p].txn.signature # "circle" \/ loc[p].txn.fetched # "key"
        => pc'[p] = "idle" /\ resp' = [NoResp EXCEPT !.to = p, !.status = 403]
             /\ NoEffect

\* C15: the webhook handler answers 400 to a delivery without the signature
\* or key-id header, 400 to one whose text is not JSON and 403 to one whose
\* signature does not verify, and in each case inserts no webhook event,
\* changes no transaction and makes no credit or provider call.
C15_RejectionsHaveNoEffect ==
    [][MissingHeaderIs400 /\ InvalidJsonIs400 /\ UnverifiedIs403]_vars

C15_Witness ==
    /\ resp.to \in Webhooks
    /\ resp.status = 403
    /\ \E i \in DOMAIN transactions : transactions[i].status = "pending"
    /\ transaction_webhook_events # {}

\* C16: a delivery that passes the checks is recorded by exactly one
\* transaction_webhook_events row once logWebhookEvent has run, replay or not.
C16_AcceptedIsLoggedOnce ==
    [][\A p \in Webhooks :
          /\ Leaves(p, "wh_verify")
          /\ verifyCircleSignature(loc[p].txn)
          /\ loc[p].txn.fields
          => Cardinality({e \in transaction_webhook_events' :
                            e.dedupe_hash = generateDedupeHash(loc[p].body)}) = 1]_vars

\* the notification p is handling does not raise the status of the row that
\* carries its provider transaction id
StaleForAdminRow(p) ==
    \E i \in Ids :
        /\ transactions[i].circle_transaction_id = loc[p].body.id
        /\ transactions[i].transaction_type # "USER"
        /\ statusPriority(mapCircleStateToStatus(loc[p].body.state))
              <= statusPriority(transactions[i].status)

\* C17: a verified notification whose mapped status is not above the stored
\* status (and is not failed) changes no transactions row, appends no
\* transaction_events row and starts no provider call: the handler answers
\* at once.
C17_StaleNotificationIsNoOp ==
    [][\A p \in Webhooks :
          pc[p] = "uats_update" /\ StaleForAdminRow(p)
          => /\ UNCHANGED <<transactions, transaction_events>>
             /\ pc'[p] \in {"uats_update", "idle"}]_vars

\* C18: once a delivery is logged, its handler answers 200 whatever happens
\* in the steps that follow.
C18_AnswersOkOnceLogged ==
    [][\A p \in Webhooks :
          pc[p] # "idle" /\ pc'[p] = "idle" => resp'.status = 200]_vars

\* C19: a first delivery whose provider call fails (burn submission,
\* getTransaction, mint relay) is answered 5xx and has changed no status: no
\* transaction_events row was written on its behalf.
C19_FailedProviderCallChangesNothing ==
    [][\A p \in Webhooks :
          /\ pc[p] \in {"burn_call", "get_transaction", "mint_call"}
          /\ pc'[p] = "idle"
          /\ ~loc[p].replay
          => /\ resp'.status >= 500
             /\ EventsVia(loc[p].body) = {}]_vars

\* the latest response p's poll loop has received (none: <<>>)
Received(p) == loc[p].todo
LastReceived(p) == Received(p)[Len(Received(p))]

\* the loop is running exactly while the latest response was not complete,
\* and it is left with a complete one, which is the latest
PollsUntilComplete ==
    \A p \in Webhooks :
        /\ pc[p] = "iris_poll" =>
              /\ Received(p) = <<>> <=> loc[p].aux = 0
              /\ Received(p) # <<>> => LastReceived(p).status # "complete"
        /\ pc[p] = "mint_call" =>
              /\ Received(p) # <<>>
              /\ LastReceived(p).status = "complete"
              /\ LastReceived(p).message = loc[p].aux

\* every poll is one more response, and it replaces the one held before
OneResponsePerPoll ==
    \A p \in Webhooks :
        pc[p] = "iris_poll" /\ loc'[p] # loc[p] =>
            /\ loc'[p].aux = loc[p].aux + 1
            /\ loc'[p].todo = <<IrisResponse(loc'[p].todo[1].status, loc'[p].aux)>>

\* an answer that is not complete keeps the handler in the loop
KeepsPolling ==
    \A p \in Webhooks :
        pc[p] = "iris_poll" => pc'[p] \in {"iris_poll", "mint_call"}

\* the mint relay is given the content of the response that ended the loop
RelaysLastReceived ==
    \A p \in Webhooks :
        pc[p] = "mint_call" /\ pc'[p] = "mint_by_txid" =>
            /\ Len(providerTxs') = Len(providerTxs) + 1
            /\ providerTxs'[Len(providerTxs')].fn = "receiveMessage"
            /\ providerTxs'[Len(providerTxs')].abiParameters
                  = LastReceived(p).message

\* every mint relay ever issued carries the content of some response
RelayedAfterComplete ==
    \A k \in DOMAIN providerTxs :
        providerTxs[k].fn = "receiveMessage" => providerTxs[k].abiParameters > 0

\* C20: the attestation poll loop goes on while the service answers 404, an
\* error or a message that is not complete; the first response whose message
\* is complete ends it, the mint relay is given that response's message and
\* attestation, and no mint relay is issued before.
C20_MintUsesFirstCompleteAttestation ==
    /\ [](PollsUntilComplete /\ RelayedAfterComplete)
    /\ [][KeepsPolling /\ OneResponsePerPoll /\ RelaysLastReceived]_vars

\* two incomplete answers, then the complete one, relayed
C20_Witness ==
    \E k \in DOMAIN providerTxs :
        /\ providerTxs[k].fn = "receiveMessage"
        /\ providerTxs[k].abiParameters = 3

\* C21: a message with a failure status ends the attestation wait: the
\* webhook's poll loop is not running once it has received one.
C21_FailedAttestationStopsPolling ==
    \A p \in Webhooks :
        pc[p] = "iris_poll" /\ Received(p) # <<>> =>
            LastReceived(p).status # "failed"

\* the loop is entered for at most maxAttempts polls
AtMostMaxAttempts ==
    \A p \in Transferors :
        pc[p] = "gw_poll" => loc[p].txn.attempts < maxAttempts

\* the timeout error is raised by the last poll and by no earlier one
TimeoutAfterLastPoll ==
    \A p \in Transferors :
        /\ pc[p] = "gw_poll"
        /\ pc'[p] = "gw_log"
        /\ loc'[p].txn.error.kind = "Attestation not received"
        => loc[p].txn.attempts = maxAttempts - 1

\* the loop ends with the attestation or with one of its two errors, and the
\* last poll always ends it
PollLoopEnds ==
    \A p \in Transferors :
        pc[p] = "gw_poll" /\ pc'[p] # "gw_poll" =>
            \/ pc'[p] = "gw_mint" /\ loc'[p].txn.attestation = loc[p].txn.attempts + 2
            \/ /\ pc'[p] = "gw_log"
               /\ loc'[p].txn.error.kind
                     \in {"Attestation not received", "Transfer failed"}

LastPollLeaves ==
    \A p \in Transferors :
        /\ pc[p] = "gw_poll"
        /\ loc[p].txn.attempts = maxAttempts - 1
        /\ loc'[p] # loc[p]
        => pc'[p] # "gw_poll"

C23_TransferEventuallyAnswers ==
    \A p \in Transferors : (pc[p] # "idle") ~> (pc[p] = "idle")

\* C24: every insert into transactions appends exactly one transaction_events
\* row (NULL, inserted status), every update that changes a row's status
\* appends exactly one row (previous status, new status), an update that
\* leaves the status unchanged appends none; hence each event's old_status is
\* the new_status of the record's previous event.
EventsSince == SubSeq(transaction_events', Len(transaction_events) + 1,
                      Len(transaction_events'))

InsertedRows == (Len(transactions) + 1)..Len(transactions')

StatusChangedRows ==
    {i \in Ids : transactions'[i].status # transactions[i].status}

LoggedOnce(i, old, new) ==
    Cardinality({k \in DOMAIN EventsSince :
                    EventsSince[k].transaction_id = i}) = 1
    /\ \E k \in DOMAIN EventsSince :
            /\ EventsSince[k].transaction_id = i
            /\ EventsSince[k].old_status = old
            /\ EventsSince[k].new_status = new

OneEventPerStatusChange ==
    /\ Len(transactions') >= Len(transactions)
    /\ Len(transaction_events') >= Len(transaction_events)
    /\ Len(EventsSince) = Cardinality(InsertedRows) + Cardinality(StatusChangedRows)
    /\ \A i \in InsertedRows : LoggedOnce(i, NULL, transactions'[i].status)
    /\ \A i \in StatusChangedRows :
            LoggedOnce(i, transactions[i].status, transactions'[i].status)

PreviousEventOf(k) ==
    {j \in EventsOf(transaction_events[k].transaction_id) :
        /\ j < k
        /\ \A l \in EventsOf(transaction_events[k].transaction_id) :
                l < k => l <= j}

EventsChain ==
    \A k \in DOMAIN transaction_events :
        /\ PreviousEventOf(k) = {} => transaction_events[k].old_status = NULL
        /\ \A j \in PreviousEventOf(k) :
                transaction_events[k].old_status = transaction_events[j].new_status

C24_StatusChangesAreLogged ==
    []EventsChain /\ [][OneEventPerStatusChange]_vars

\* two deliveries of the same state have both updated an approval row: it has
\* its insert event and the one event of the update that changed its status
C24_Witness ==
    \E p, q \in Webhooks :
        /\ p # q
        /\ pc[p] = "burn_call"
        /\ pc[q] = "burn_call"
        /\ loc[p].txn.id = loc[q].txn.id
        /\ loc[p].body.state = loc[q].body.state
        /\ Cardinality(EventsOf(loc[p].txn.id)) = 2

\* C25: handling a notification for a CCTP_MINT or ADMIN record changes at
\* most that record's own status and tx_hash: it inserts no transactions row
\* and issues no provider contract-execution call.
Acting(p) ==
    /\ pc[p] # "idle"
    /\  \/ pc'[p] # pc[p]
        \/ loc'[p].aux # loc[p].aux
        \/ Len(loc'[p].todo) # Len(loc[p].todo)

RecordsNotified(body, types) ==
    {i \in Ids : /\ transactions[i].circle_transaction_id = body.id
                 /\ transactions[i].transaction_type \in types}

OnlyStatusAndHashOf(records) ==
    /\ Len(transactions') = Len(transactions)
    /\ providerTxs' = providerTxs
    /\ \A j \in Ids :
            IF j \in records
            THEN [transactions'[j] EXCEPT !.status = transactions[j].status,
                                          !.tx_hash = transactions[j].tx_hash]
                    = transactions[j]
            ELSE transactions'[j] = transactions[j]

MintNotificationFrame ==
    \A p \in Webhooks :
        LET records == RecordsNotified(loc[p].body, {"CCTP_MINT", "ADMIN"})
        IN  Acting(p) /\ records # {} => OnlyStatusAndHashOf(records)

C25_MintNotificationTouchesOnlyItsRecord == [][MintNotificationFrame]_vars

\* C26: a verified delivery with notificationType webhooks.test is logged
\* once to transaction_webhook_events and answered 200 without running
\* updateTransactionStatus or updateAdminTransactionStatus: no transactions
\* row changes and no credit or on-chain call happens.
C26_TestNotificationIsLoggedOnly ==
    [][\A p \in Webhooks :
          /\ Leaves(p, "wh_verify")
          /\ verifyCircleSignature(loc[p].txn)
          /\ loc[p].txn.fields
          /\ loc[p].body.notificationType = "webhooks.test"
          => /\ Cardinality({e \in transaction_webhook_events' :
                    e.dedupe_hash = generateDedupeHash(loc[p].body)}) = 1
             /\ pc'[p] = "idle"
             /\ resp' = [NoResp EXCEPT !.to = p, !.status = 200]
             /\ UNCHANGED <<transactions, transaction_events, credits,
                            creditCalls, providerTxs>>]_vars

\* C27: mapCircleStateToStatus returns pending for QUEUED, SENT and PENDING,
\* confirmed for CONFIRMED, complete for COMPLETE, failed for FAILED and null
\* for every other input, undefined and the empty string included; and a
\* notification whose state maps to null advances no record's status.
SpecifiedStatus(circleState) ==
    CASE circleState \in {"QUEUED", "SENT", "PENDING"} -> "pending"
      [] circleState = "CONFIRMED" -> "confirmed"
      [] circleState = "COMPLETE" -> "complete"
      [] circleState = "FAILED" -> "failed"
      [] OTHER -> NULL

MapsAsSpecified ==
    \A p \in Webhooks :
        pc[p] # "idle" =>
            mapCircleStateToStatus(loc[p].body.state)
                = SpecifiedStatus(loc[p].body.state)

UnmappedAdvancesNothing ==
    \A p \in Webhooks :
        Acting(p) /\ mapCircleStateToStatus(loc[p].body.state) = NULL
        => UNCHANGED <<transactions, transaction_events, credits>>

C27_StateMapping == []MapsAsSpecified /\ [][UnmappedAdvancesNothing]_vars

\* C28: in the gateway transfer request the mint is executed by the user's
\* gateway_signer EOA wallet when the recipient differs from the user's own
\* wallet address and by the user's SCA wallet, named by its Circle wallet
\* id, otherwise; the burn intent names the SCA address as depositor and the
\* EOA address as signer; the gas pre-flight checks the wallet that mints.
SpecifiedMinter(r) ==
    IF r.isExternalRecipient THEN EoaWallet.circle_wallet_id
    ELSE ScaWallet.circle_wallet_id

MinterAsSpecified ==
    \A p \in Transferors :
        /\ pc[p] # "idle"
        /\ pc[p] = "gw_gas" \/ loc[p].txn.mintAnswer # NULL
        => loc[p].txn.minterWalletId = SpecifiedMinter(loc[p].txn)

BurnIntentParties ==
    \A k \in DOMAIN burnIntents :
        /\ burnIntents[k].sourceDepositor = ScaWallet.address
        /\ burnIntents[k].sourceSigner = EoaWallet.address

C28_MintWalletFollowsRecipient == MinterAsSpecified /\ BurnIntentParties

\* C29: no webhook, PATCH or transfer operation updates or deletes a row of
\* transaction_events or transaction_webhook_events: every step leaves the
\* rows written before it as they were, a step that fails included.
EventsKept ==
    /\ Len(transaction_events') >= Len(transaction_events)
    /\ SubSeq(transaction_events', 1, Len(transaction_events)) = transaction_events
    /\ transaction_webhook_events \subseteq transaction_webhook_events'

RelayCallsFor(i) ==
    {k \in DOMAIN providerTxs :
        providerTxs[k].fn = "receiveMessage" /\ providerTxs[k].cause = i}

C30_OneRelayCallPerBurn ==
    \A i \in Ids :
        transactions[i].transaction_type = "CCTP_BURN"
        => Cardinality(RelayCallsFor(i)) <= 1

\* C31: a CCTP approval whose provider transaction was reported CONFIRMED
\* ends with status confirmed (and a CCTP_BURN row), whether the notification
\* was handled before or after the CCTP_APPROVAL row was inserted.  Stated for
\* the runs that have come to rest: the notification is logged and handled,
\* the transfer action has returned, and the row is no longer pending.
ConfirmationHandled(ctid) ==
    /\ \E e \in transaction_webhook_events :
            /\ e.circle_event_id.id = ctid
            /\ e.circle_event_id.state = "CONFIRMED"
    /\ \A p \in Webhooks \cup Admins : pc[p] = "idle"

C31_ConfirmationIsNotLost ==
    \A i \in Ids :
        /\ transactions[i].transaction_type = "CCTP_APPROVAL"
        /\ IsInternal(transactions[i].destination_address)
        /\ ConfirmationHandled(transactions[i].circle_transaction_id)
        => transactions[i].status \in {"confirmed", "complete"}

\* C32: PATCH changes a record only from pending to complete: a request that
\* is rejected, and one whose record is no longer pending when it writes,
\* leaves the record's status as it is and credits nothing.
PatchWritesOnlyPending ==
    \A p \in Patchers :
        /\ pc[p] = "idle" /\ pc'[p] = "idle" /\ resp' # resp /\ resp'.to = p
            => UNCHANGED <<transactions, credits>>
        /\ pc[p] \in {"patch_credit", "patch_update"}
            /\ pc'[p] # pc[p]
            /\ transactions[loc[p].txn.id].status # "pending"
            => UNCHANGED <<transactions, credits>>

C32_PatchNeverOverridesWebhook == [][PatchWritesOnlyPending]_vars

\* C33: after any interleaving of runPlatformInitialization runs there is at
\* most one row labelled 'Primary wallet'; an insert stopped by the unique
\* index ends the run as a success, adding nothing; every run that ends,
\* failed ones included, leaves isInitialized true, and a process whose flag
\* is set does not enter the initialization body.
RunEnds(s) == pc[s] # "idle" /\ pc'[s] = "idle"
UniqueViolationIsSuccess(s) ==
    pc[s] = "init_insert" /\ PrimaryWallets # {} /\ pc'[s] # pc[s]
        => \/ resp'.to = s /\ resp'.body.error = "23505"
                /\ admin_wallets' = admin_wallets
           \/ resp'.to = s /\ resp'.body.error = "failed"
                /\ admin_wallets' = admin_wallets
InitializationStep ==
    \A s \in Servers :
        /\ RunEnds(s) => isInitialized'[s]
        /\ pc[s] = "idle" /\ pc'[s] # "idle" => ~isInitialized[s]
        /\ UniqueViolationIsSuccess(s)
        /\ pc[s] # "idle" => ~isInitialized[s]
AtMostOnePrimaryWallet == Cardinality(PrimaryWallets) <= 1
C33_InitializationIsIdempotent ==
    [][InitializationStep /\ AtMostOnePrimaryWallet']_vars
C33_Witness ==
    /\ Cardinality(PrimaryWallets) = 1
    /\ resp.to \in Servers
    /\ resp.body.error = "23505"
    /\ \A s \in Servers : isInitialized[s] /\ pc[s] = "idle"

\* C34: after any interleaving of init-eoa-wallets requests and
\* getOrCreateGatewayEOAWallet calls for one user, the wallets table holds at
\* most one gateway_signer row for that user, and getGatewayEOAWalletId
\* succeeds for a user who has one.
C34_OneSignerWalletPerUser ==
    \A u \in Users :
        LET rows == {w \in public_wallets : w.user_id = u}
        IN  /\ Cardinality(rows) <= 1
            /\ rows # {} => getGatewayEOAWalletId(u) # 0

\* C35: in the gateway transfer request the mint call is made only after
\* transferGatewayBalanceWithEOA returned an attestation together with its
\* signature; when the Gateway rejects the burn intent, reports FAILED or
\* never yields an attestation, no mint call is made, no success record is
\* written and the request is answered with an error.
AttestationErrors ==
    {"Gateway API error", "Transfer failed", "Attestation not received"}
Attested(p) == pc[p] # "idle" /\ loc[p].txn.attestation # 0
NotAttested(p) ==
    /\ pc[p] \in {"gw_log", "gw_wallet"}
    /\ loc[p].txn.error.kind \in AttestationErrors
SuccessRecords == {i \in DOMAIN transaction_history : transaction_history[i].status = "success"}
MintOnlyWhenAttested ==
    /\ \A p \in Transferors :
            /\ pc'[p] = "gw_mint" => Attested(p)'
            /\ pc[p] \in {"gw_submit", "gw_poll"} /\ pc'[p] \notin {"gw_poll", "gw_mint"}
                    => NotAttested(p)'
            /\ NotAttested(p)
                    => /\ UNCHANGED providerTxs
                       /\ SuccessRecords' = SuccessRecords
                       /\ pc'[p] = "idle" => resp'.to = p /\ resp'.status >= 400
    /\ providerTxs' # providerTxs => \E p \in Transferors : pc[p] = "gw_mint" /\ Attested(p)
C35_MintOnlyAfterAttestation == [][MintOnlyWhenAttested]_vars
C35_Witness ==
    /\ resp.to \in Transferors
    /\ resp.status = 500
    /\ resp.body.error = "Attestation not received"
    /\ providerTxs = <<>>
    /\ Len(transaction_history) = 1
    /\ transaction_history[1].status = "failed"

\* C36: the deposit call is submitted only after approve reached CONFIRMED
\* or COMPLETE, approve only after addDelegate (when a delegate is given)
\* did, and withdraw only after initiateWithdrawal did; a waited-for
\* transaction that reaches FAILED ends the flow with no later call.
Reached(p, fn) ==
    /\ loc[p].txn.last = fn
    /\ loc[p].txn.state \in {"CONFIRMED", "COMPLETE"}
Submits(p, fn) ==
    /\ pc[p] = "cw_call"
    /\ pc'[p] = "cw_wait"
    /\ providerTxs'[Len(providerTxs')].fn = fn
CustodialOrder ==
    \A p \in Custodians :
        /\ Submits(p, "deposit") => Reached(p, "approve")
        /\ Submits(p, "approve") /\ loc[p].txn.delegate => Reached(p, "addDelegate")
        /\ Submits(p, "withdraw") => Reached(p, "initiateWithdrawal")
        /\ pc[p] = "cw_wait" /\ pc'[p] = "cw_call"
                => loc'[p].txn.state \in {"CONFIRMED", "COMPLETE"}
        /\ pc[p] = "cw_wait" /\ resp'.to = p /\ resp' # resp
                /\ resp'.body.error = "Transaction failed"
                => pc'[p] = "idle" /\ loc'[p] = NoLoc /\ UNCHANGED providerTxs
C36_CustodialStepsWaitForConfirmation == [][CustodialOrder]_vars
C36_Witness ==
    /\ Len(providerTxs) = 3
    /\ providerTxs[1].fn = "addDelegate"
    /\ providerTxs[2].fn = "approve"
    /\ providerTxs[3].fn = "deposit"
    /\ started.custody = 1
    /\ resp.to \in Custodians
    /\ resp.status = 200

\* C37: handling a confirmation for an ADMIN or CCTP_* record whose
\* destination is no admin wallet, or a COMPLETE notification from a chain
\* other than ARC-TESTNET, changes only that record's status and tx_hash: no
\* row is inserted and no burn or mint call is issued.
AdminTypes == {"ADMIN", "CCTP_APPROVAL", "CCTP_BURN", "CCTP_MINT"}
NoBridgingFor(body, records) ==
    /\ body.state \in {"CONFIRMED", "COMPLETE"}
    /\  \/ \A i \in records : ~IsInternal(transactions[i].destination_address)
        \/ body.state = "COMPLETE" /\ body.blockchain # "ARC-TESTNET"
ExternalTransferFrame ==
    \A p \in Webhooks :
        LET records == RecordsNotified(loc[p].body, AdminTypes)
        IN  Acting(p) /\ records # {} /\ NoBridgingFor(loc[p].body, records)
                => OnlyStatusAndHashOf(records)
C37_ExternalTransferUpdatesOnlyItsRecord == [][ExternalTransferFrame]_vars

\* C38: the burn call's maxFee is max(amount - 1, 0) for every atomic
\* amount >= 0: amount - 1 above 1 and 0 otherwise, never negative, and
\* strictly less than the amount whenever the amount is at least 1.
Max(a, b) == IF a >= b THEN a ELSE b
C38_MaxFeeIsAmountMinusOne ==
    \A k \in DOMAIN providerTxs :
        LET amount == providerTxs[k].abiParameters[1]
            fee == providerTxs[k].abiParameters[2]
        IN  /\ fee = Max(amount - 1, 0)
            /\ fee >= 0
            /\ amount >= 1 => fee < amount
C38_Witness ==
    /\ Len(providerTxs) >= 3
    /\ providerTxs[1].abiParameters = <<0, 0>>
    /\ providerTxs[2].abiParameters = <<1, 0>>
    /\ providerTxs[3].abiParameters = <<MaxAmount, MaxAmount - 1>>

====
